---- MODULE Spec2Model ----
(***************************************************************************)
(* Visage: the PAM module (pam-visage), the daemon's D-Bus handlers        *)
(* (visaged/dbus_interface.rs) and the engine thread (visaged/engine.rs),  *)
(* together with the pure matching code of visage-core.                    *)
(*                                                                         *)
(* Similarities are kept in hundredths (0.40 is 40); embeddings are small  *)
(* integer vectors whose norms are integers, so that the cosine is exact.  *)
(***************************************************************************)
EXTENDS Integers, Sequences, FiniteSets, TLC

\* ------------------------------------------------------------------ bounds
\* Number of IPC calls the bus delivers to the daemon in one run.
MaxCalls == 1
\* Number of IPC calls in a run where calls overlap.
MaxOverlappingCalls == 2
\* Number of Enroll / Verify calls in a run that loads the engine queue.
MaxEngineCalls == 3
\* Capacity of the engine queue in the runs checked; the daemon's channel
\* (spawn_engine) holds 4.
QueueCap == 2
\* VISAGE_FRAMES_PER_VERIFY / VISAGE_FRAMES_PER_ENROLL as configured for the run.
FramesPerVerify == 2
FramesPerEnroll == 1
\* Calls the daemon serves during one login through the PAM module.
MaxPamCalls == 1
MaxGallery == 3
MaxCount == 2
MaxFrames == 3
MaxBoxes == 3

\* --------------------------------------------------------------- constants
PAM_SUCCESS == 0
PAM_IGNORE == 25
SimilarityThreshold == 40
NegInfinity == -1000
SCRFD_NMS_THRESHOLD == 40

Calls ==
  (1..MaxCalls) \cup (1..MaxOverlappingCalls) \cup (1..MaxEngineCalls) \cup (1..MaxPamCalls)
Users == {"alice", "bob"}
Methods == {"Enroll", "Verify", "Status", "ListModels", "RemoveModel"}

\* ----------------------------------------------------------------- values
NoRes == [tag |-> "none"]
Ok(v) == [tag |-> "ok", val |-> v]
Err(e) == [tag |-> "err", err |-> e]

\* A raw dequeue of the camera: a driver failure, a dark frame, or a non-dark
\* frame on which detection fails (DetectFail) or whose top detection is
\* NoFace or an index into FaceTable.
RawFail == -3
RawDark == -2
DetectFail == -1
NoFace == 0
FaceTable ==
  << [emb |-> <<1, 0>>, conf |-> 90, lm |-> TRUE],
     [emb |-> <<0, 1>>, conf |-> 60, lm |-> TRUE],
     [emb |-> <<3, 4>>, conf |-> 90, lm |-> TRUE],
     [emb |-> <<1, 0>>, conf |-> 95, lm |-> FALSE] >>

\* The top detections the camera of the running daemon gets to see.
FacesSeen == {1, 2}
FrameKinds == {DetectFail, NoFace} \cup FacesSeen

\* Every outcome of detection on a frame.
AllFrameKinds == {DetectFail, NoFace} \cup DOMAIN FaceTable
RawKinds == {RawFail, RawDark} \cup FrameKinds

\* Templates the database file may already hold when the daemon starts.
SeedTemplates ==
  { [id |-> 1, user |-> "alice", emb |-> <<1, 0>>],
    [id |-> 2, user |-> "bob", emb |-> <<3, 4>>] }
MaxSeedId == Cardinality(SeedTemplates)

\* ------------------------------------------------- visage-core: types.rs
ISqrt(n) == CHOOSE r \in 0..n : r * r <= n /\ (r + 1) * (r + 1) > n

RECURSIVE Dot(_, _, _)
Dot(a, b, i) == IF i > Len(a) \/ i > Len(b) THEN 0 ELSE a[i] * b[i] + Dot(a, b, i + 1)

\* Embedding::similarity, in hundredths.
Similarity(a, b) ==
  LET dot == Dot(a, b, 1)
      denom == ISqrt(Dot(a, a, 1)) * ISqrt(Dot(b, b, 1))
  IN IF denom > 0 THEN (dot * 100) \div denom ELSE 0

\* A loop that leaves at the first template that reaches the default
\* threshold.
RECURSIVE EarlyExitLoop(_, _, _, _, _)
EarlyExitLoop(probe, gallery, i, best_sim, best_idx) ==
  IF i > Len(gallery) THEN [best_sim |-> best_sim, best_idx |-> best_idx, computed |-> 0]
  ELSE LET sim == Similarity(probe, gallery[i].emb)
           rest == IF sim >= SimilarityThreshold
                   THEN [best_sim |-> sim, best_idx |-> i, computed |-> 0]
                   ELSE IF sim > best_sim
                   THEN EarlyExitLoop(probe, gallery, i + 1, sim, i)
                   ELSE EarlyExitLoop(probe, gallery, i + 1, best_sim, best_idx)
       IN [rest EXCEPT !.computed = @ + 1]

\* The for loop of compare from entry i on; `computed` counts the calls of
\* probe.similarity it makes.
RECURSIVE CompareLoop(_, _, _, _, _)
CompareLoop(probe, gallery, i, best_sim, best_idx) ==
  IF i > Len(gallery) THEN [best_sim |-> best_sim, best_idx |-> best_idx, computed |-> 0]
  ELSE LET sim == Similarity(probe, gallery[i].emb)
           rest == IF sim > best_sim
                   THEN CompareLoop(probe, gallery, i + 1, sim, i)
                   ELSE CompareLoop(probe, gallery, i + 1, best_sim, best_idx)
       IN [rest EXCEPT !.computed = @ + 1]

\* A match arm that asks for more than the threshold.
StrictlyAbove(best_idx, best_sim, threshold) == best_idx # 0 /\ best_sim > threshold

MatchedAt(best_idx, best_sim, threshold) == best_idx # 0 /\ best_sim >= threshold

\* CosineMatcher::compare. model_id 0 is None.
Compare(probe, gallery, threshold) ==
  LET r == CompareLoop(probe, gallery, 1, NegInfinity, 0)
  IN IF MatchedAt(r.best_idx, r.best_sim, threshold)
     THEN [matched |-> TRUE, similarity |-> r.best_sim, model_id |-> gallery[r.best_idx].id]
     ELSE [matched |-> FALSE,
           similarity |-> IF r.best_sim = NegInfinity THEN 0 ELSE r.best_sim,
           model_id |-> 0]

\* ---------------------------------------------- visage-core: detector.rs
Max(a, b) == IF a >= b THEN a ELSE b
Min(a, b) == IF a <= b THEN a ELSE b

\* iou(a, b) > iou_threshold, the threshold in hundredths.
IouAbove(a, b, iou_threshold) ==
  LET x1 == Max(a.x, b.x)
      y1 == Max(a.y, b.y)
      x2 == Min(a.x + a.width, b.x + b.width)
      y2 == Min(a.y + a.height, b.y + b.height)
      inter_area == Max(x2 - x1, 0) * Max(y2 - y1, 0)
      union_area == a.width * a.height + b.width * b.height - inter_area
  IN IF union_area > 0 THEN inter_area * 100 > iou_threshold * union_area
     ELSE 0 > iou_threshold

\* detections.sort_by(descending confidence): the sort is stable.
RECURSIVE InsertByConfidence(_, _)
InsertByConfidence(sorted, d) ==
  IF sorted = <<>> THEN <<d>>
  ELSE IF Head(sorted).confidence >= d.confidence
       THEN <<Head(sorted)>> \o InsertByConfidence(Tail(sorted), d)
       ELSE <<d>> \o sorted

RECURSIVE SortByConfidence(_, _, _)
SortByConfidence(detections, i, sorted) ==
  IF i > Len(detections) THEN sorted
  ELSE SortByConfidence(detections, i + 1, InsertByConfidence(sorted, detections[i]))

\* A loop in which a suppressed box still suppresses the boxes after it.
RECURSIVE ChainSuppressLoop(_, _, _, _, _)
ChainSuppressLoop(detections, iou_threshold, i, suppressed, keep) ==
  IF i > Len(detections) THEN keep
  ELSE ChainSuppressLoop(detections, iou_threshold, i + 1,
                         suppressed \cup {j \in (i + 1)..Len(detections) :
                                            IouAbove(detections[i], detections[j], iou_threshold)},
                         IF i \in suppressed THEN keep ELSE Append(keep, detections[i]))

\* The outer loop of nms from index i on.
RECURSIVE NmsLoop(_, _, _, _, _)
NmsLoop(detections, iou_threshold, i, suppressed, keep) ==
  IF i > Len(detections) THEN keep
  ELSE IF i \in suppressed
       THEN NmsLoop(detections, iou_threshold, i + 1, suppressed, keep)
       ELSE NmsLoop(detections, iou_threshold, i + 1,
                    suppressed \cup {j \in (i + 1)..Len(detections) :
                                       /\ j \notin suppressed
                                       /\ IouAbove(detections[i], detections[j], iou_threshold)},
                    Append(keep, detections[i]))

Nms(detections, iou_threshold) ==
  NmsLoop(SortByConfidence(detections, 1, <<>>), iou_threshold, 1, {}, <<>>)

\* ------------------------------------------------ visage-hw: camera.rs
\* Camera::capture_frames: the results the loop can produce, the driver
\* choosing each dequeued buffer. attempt counts the dequeues made so far.
\* The results of the rest of a capture, with the buffer raw recorded as
\* dequeued before it.
Dequeue(raw, results) ==
  {IF r.tag = "ok" THEN Ok([r.val EXCEPT !.dequeued = <<raw>> \o @]) ELSE r : r \in results}

\* A loop without the `break` on good_frames.len() >= count.
RECURSIVE NoBreakLoop(_, _, _, _)
NoBreakLoop(count, attempt, good_frames, dark_count) ==
  IF attempt >= count * 3
  THEN {Ok([frames |-> good_frames, dark_skipped |-> dark_count, dequeued |-> <<>>])}
  ELSE UNION { IF raw = RawFail THEN {Err("CaptureFailed")}
               ELSE IF raw = RawDark
               THEN Dequeue(raw, NoBreakLoop(count, attempt + 1, good_frames, dark_count + 1))
               ELSE Dequeue(raw, NoBreakLoop(count, attempt + 1, Append(good_frames, raw),
                                             dark_count))
             : raw \in RawKinds }

\* `dequeued` records the buffers stream.next() handed out from here on.
RECURSIVE CaptureLoop(_, _, _, _)
CaptureLoop(count, attempt, good_frames, dark_count) ==
  IF attempt >= count * 3 \/ Len(good_frames) >= count
  THEN {Ok([frames |-> good_frames, dark_skipped |-> dark_count, dequeued |-> <<>>])}
  ELSE UNION { IF raw = RawFail THEN {Err("CaptureFailed")}
               ELSE IF raw = RawDark
               THEN Dequeue(raw, CaptureLoop(count, attempt + 1, good_frames, dark_count + 1))
               ELSE Dequeue(raw, CaptureLoop(count, attempt + 1, Append(good_frames, raw),
                                             dark_count))
             : raw \in RawKinds }

CaptureFrames(count) == {Err("CaptureFailed")} \cup CaptureLoop(count, 0, <<>>, 0)


\* ----------------------------------------------------- visaged: engine.rs
\* An extraction that does without landmarks.
ExtractAnyway(face) == Ok(face.emb)

\* FaceRecognizer::extract fails without landmarks; otherwise the embedding.
Extract(face) == IF face.lm THEN Ok(face.emb) ELSE Err("NoLandmarks")

\* A loop that replaces the best face on equal confidence too.
RECURSIVE LastBestLoop(_, _, _, _)
LastBestLoop(frames, i, best_face, best_frame_idx) ==
  IF i > Len(frames) THEN Ok([best_face |-> best_face, best_frame_idx |-> best_frame_idx])
  ELSE IF frames[i] = DetectFail THEN Err("Detector")
  ELSE IF frames[i] # NoFace
          /\ FaceTable[frames[i]].conf >= (IF best_face = NoFace THEN 0 ELSE FaceTable[best_face].conf)
       THEN LastBestLoop(frames, i + 1, frames[i], i)
       ELSE LastBestLoop(frames, i + 1, best_face, best_frame_idx)

RECURSIVE EnrollLoop(_, _, _, _)
EnrollLoop(frames, i, best_face, best_frame_idx) ==
  IF i > Len(frames) THEN Ok([best_face |-> best_face, best_frame_idx |-> best_frame_idx])
  ELSE IF frames[i] = DetectFail THEN Err("Detector")
  ELSE IF frames[i] # NoFace
          /\ FaceTable[frames[i]].conf > (IF best_face = NoFace THEN 0 ELSE FaceTable[best_face].conf)
       THEN EnrollLoop(frames, i + 1, frames[i], i)
       ELSE EnrollLoop(frames, i + 1, best_face, best_frame_idx)

\* The frames of a capture result; dark_skipped is only logged (engine.rs).
Frames(r) == IF r.tag = "ok" THEN Ok(r.val.frames) ELSE r

\* run_enroll after the capture: capture_result is the Result of capture_frames,
\* less dark_skipped.
RunEnroll(capture_result) ==
  IF capture_result.tag = "err" THEN Err("Camera")
  ELSE LET frames == capture_result.val
       IN IF Len(frames) = 0 THEN Err("NoFaceDetected")
          ELSE LET b == EnrollLoop(frames, 1, NoFace, 1)
               IN IF b.tag = "err" THEN b
                  ELSE IF b.val.best_face = NoFace THEN Err("NoFaceDetected")
                  ELSE LET e == Extract([FaceTable[b.val.best_face] EXCEPT
                                           !.emb = FaceTable[frames[b.val.best_frame_idx]].emb])
                       IN IF e.tag = "err" THEN e
                          ELSE Ok([embedding |-> e.val,
                                   quality_score |-> FaceTable[b.val.best_face].conf])

\* A comparison that lets a later frame of equal similarity win.
IsBetterOrEqual(best_result, res) ==
  best_result.tag = "none" \/ res.similarity >= best_result.val.similarity

IsBetter(best_result, result) ==
  best_result.tag = "none" \/ result.similarity > best_result.val.similarity

RECURSIVE VerifyLoop(_, _, _, _, _, _, _)
VerifyLoop(frames, i, gallery, threshold, best_result, best_quality, any_face_detected) ==
  IF i > Len(frames)
  THEN IF ~any_face_detected THEN Err("NoFaceDetected")
       ELSE Ok([result |-> IF best_result.tag = "none"
                           THEN [matched |-> FALSE, similarity |-> 0, model_id |-> 0]
                           ELSE best_result.val,
                best_quality |-> best_quality])
  ELSE IF frames[i] = DetectFail THEN Err("Detector")
  ELSE IF frames[i] = NoFace
       THEN VerifyLoop(frames, i + 1, gallery, threshold, best_result, best_quality,
                       any_face_detected)
       ELSE LET face == FaceTable[frames[i]]
                e == Extract(face)
            IN IF e.tag = "err" THEN e
               ELSE LET result == Compare(e.val, gallery, threshold)
                        is_better == IsBetter(best_result, result)
                    IN VerifyLoop(frames, i + 1, gallery, threshold,
                                  IF is_better THEN Ok(result) ELSE best_result,
                                  IF is_better THEN face.conf ELSE best_quality,
                                  TRUE)

\* run_verify after the capture.
RunVerify(capture_result, gallery, threshold) ==
  IF capture_result.tag = "err" THEN Err("Camera")
  ELSE LET frames == capture_result.val
       IN IF Len(frames) = 0 THEN Err("NoFaceDetected")
          ELSE VerifyLoop(frames, 1, gallery, threshold, NoRes, 0, FALSE)

\* ------------------------------------------------------- visaged: store
\* The template store (FaceModelStore): records keyed by id, by ascending id.
RECURSIVE SortById(_)
SortById(S) ==
  IF S = {} THEN <<>>
  ELSE LET m == CHOOSE r \in S : \A q \in S : r.id <= q.id
       IN <<m>> \o SortById(S \ {m})

GalleryForUser(st, u) == SortById({r \in st : r.user = u})
ListByUser(st, u) == [i \in DOMAIN GalleryForUser(st, u) |-> GalleryForUser(st, u)[i].id]
CountAll(st) == Cardinality(st)
StoreInsert(st, id, u, embedding) == st \cup {[id |-> id, user |-> u, emb |-> embedding]}
StoreOwns(st, u, id) == \E r \in st : r.id = id /\ r.user = u
StoreRemove(st, u, id) == {r \in st : ~(r.id = id /\ r.user = u)}

\* ------------------------------------------------------------------ state
VARIABLES
  daemonUp,     \* visaged owns the bus name
  hasEmitter,   \* the Option<IrEmitter> probed at startup is Some
  store,        \* AppState.store
  nextId,       \* the next template id the store hands out
  lock,         \* holder of the Mutex<AppState>: 0 or a call
  pc,           \* position of each IPC handler
  method,       \* the method each call invokes
  user,         \* its user argument
  arg,          \* its model_id argument (RemoveModel)
  gallery,      \* the gallery snapshot a Verify handler holds
  busyAtBegin,  \* a request was queued or running when the call arrived
  elapsed,      \* the verify timeout has elapsed since the call began waiting
  result,       \* the D-Bus reply of each call
  queue,        \* the mpsc channel of EngineRequest
  reply,        \* the oneshot reply channel of each call
  rstate,       \* where each call's engine request is
  acceptOrder,  \* the unfinished requests in the order they entered the queue
  epc,          \* position of the engine thread
  cur,          \* the request the engine thread is executing
  emitted,      \* calls for which the engine attempted emitter activation
  captured,     \* calls for which the engine ran capture_frames
  pamPc,        \* position of pam_sm_authenticate
  pamUser,      \* username obtained from pam_get_user
  pamCall,      \* the Verify call the module made: 0 or a call
  pamGot,       \* the outcome of the body of pam_sm_authenticate
  pamRet,       \* return value of pam_sm_authenticate (-1: not returned)
  pamPath,      \* the path pam_sm_authenticate took
  setcredRet,   \* last return value of pam_sm_setcred (-1: never called)
  emitterFails, \* the emitter operations that fail on this hardware
  input,        \* the arguments of a library function called on its own
  output,       \* what that call returned
  boot          \* where main is, the startup steps that succeeded, the one that failed

fnVars == <<input, output>>
cfgVars == <<daemonUp, hasEmitter, emitterFails, boot>>
storeVars == <<store, nextId>>
argVars == <<method, user, arg>>
snapVars == <<gallery, busyAtBegin>>
chanVars == <<queue, reply, rstate, acceptOrder>>
engVars == <<epc, cur, emitted, captured>>
pamVars == <<pamPc, pamUser, pamCall, pamGot, pamRet, pamPath, setcredRet>>
vars == <<fnVars, cfgVars, storeVars, lock, pc, argVars, snapVars, elapsed, result, chanVars,
          engVars, pamVars>>

NoReq == [call |-> 0]
NoUser == "-"

NoInput == [fn |-> "-"]

\* The steps of main and spawn_engine, in program order.
StartupOrder ==
  <<"camera", "detector", "recognizer", "emitter", "warmup", "thread", "store", "bus">>

\* main waits for the shutdown signal, or has returned.
Serving == [at |-> "serving", done |-> StartupOrder, failed |-> "-"]
NotRunning == [at |-> "exited", done |-> <<>>, failed |-> "-"]

\* No call has arrived yet, the engine thread waits for its first request.
Started ==
  /\ nextId = MaxSeedId + 1
  /\ lock = 0
  /\ pc = [c \in Calls |-> "new"]
  /\ method = [c \in Calls |-> "-"]
  /\ user = [c \in Calls |-> NoUser]
  /\ arg = [c \in Calls |-> 0]
  /\ gallery = [c \in Calls |-> <<>>]
  /\ busyAtBegin = [c \in Calls |-> FALSE]
  /\ elapsed = [c \in Calls |-> FALSE]
  /\ result = [c \in Calls |-> NoRes]
  /\ queue = <<>>
  /\ reply = [c \in Calls |-> NoRes]
  /\ rstate = [c \in Calls |-> "none"]
  /\ acceptOrder = <<>>
  /\ epc = "idle"
  /\ cur = NoReq
  /\ emitted = {}
  /\ captured = {}
  /\ pamPc = "entry"
  /\ pamUser = NoUser
  /\ pamCall = 0
  /\ pamGot = "-"
  /\ pamRet = -1
  /\ pamPath = "-"
  /\ setcredRet = -1

Init ==
  /\ daemonUp \in BOOLEAN
  /\ boot = IF daemonUp THEN Serving ELSE NotRunning
  /\ hasEmitter = TRUE
  /\ emitterFails = {}
  /\ store \in {{}, SeedTemplates}
  /\ input = NoInput
  /\ output = NoRes
  /\ Started

\* A library function is called on its own: no daemon runs.
Library ==
  /\ daemonUp = FALSE
  /\ boot = NotRunning
  /\ hasEmitter = FALSE
  /\ emitterFails = {}
  /\ store = {}
  /\ output = NoRes
  /\ Started

\* The bus delivers calls one after another: call c is the c-th to arrive.
NextCall(c) == pc[c] = "new" /\ (IF c = 1 THEN TRUE ELSE pc[c - 1] # "new")

\* ---------------------------------------------------- visaged: main.rs
\* A startup that goes on after a step that failed.
IgnoresFailure(step, ok) ==
  IF step = "bus" THEN "serving"
  ELSE StartupOrder[(CHOOSE i \in DOMAIN StartupOrder : StartupOrder[i] = step) + 1]

\* Where main is after a startup step: at the next step, or, when the step
\* failed (`?` in main and spawn_engine, `expect` on the thread), out with
\* an error.
AfterStartupStep(step, ok) ==
  IF ~ok THEN "failed"
  ELSE IF step = "bus" THEN "serving"
  ELSE StartupOrder[(CHOOSE i \in DOMAIN StartupOrder : StartupOrder[i] = step) + 1]

\* One startup step with outcome ok.
Startup(step, ok) ==
  /\ boot.at = step
  /\ boot' = [at |-> AfterStartupStep(step, ok),
              done |-> IF ok THEN Append(boot.done, step) ELSE boot.done,
              failed |-> IF ok THEN boot.failed ELSE step]

\* Camera::open(camera_device)?
OpenCamera ==
  /\ \E ok \in BOOLEAN : Startup("camera", ok)
  /\ UNCHANGED <<fnVars, daemonUp, hasEmitter, emitterFails, storeVars, lock, pc, argVars,
                 snapVars, elapsed, result, chanVars, engVars, pamVars>>

\* FaceDetector::load(scrfd_path)?
LoadDetector ==
  /\ \E ok \in BOOLEAN : Startup("detector", ok)
  /\ UNCHANGED <<fnVars, daemonUp, hasEmitter, emitterFails, storeVars, lock, pc, argVars,
                 snapVars, elapsed, result, chanVars, engVars, pamVars>>

\* FaceRecognizer::load(arcface_path)?
LoadRecognizer ==
  /\ \E ok \in BOOLEAN : Startup("recognizer", ok)
  /\ UNCHANGED <<fnVars, daemonUp, hasEmitter, emitterFails, storeVars, lock, pc, argVars,
                 snapVars, elapsed, result, chanVars, engVars, pamVars>>

\* IrEmitter::for_device: Some, or None (no quirk, or disabled) with a log.
ProbeEmitter ==
  /\ Startup("emitter", TRUE)
  /\ hasEmitter' \in BOOLEAN
  /\ emitterFails' \in IF hasEmitter' THEN SUBSET {"activate", "deactivate"} ELSE {{}}
  /\ UNCHANGED <<fnVars, daemonUp, storeVars, lock, pc, argVars,
                 snapVars, elapsed, result, chanVars, engVars, pamVars>>

\* for _ in 0..warmup_frames { let _ = camera.capture_frame(); }
DiscardWarmup ==
  /\ Startup("warmup", TRUE)
  /\ UNCHANGED <<fnVars, daemonUp, hasEmitter, emitterFails, storeVars, lock, pc, argVars,
                 snapVars, elapsed, result, chanVars, engVars, pamVars>>

\* mpsc::channel(4) and thread::Builder::spawn(..).expect(..)
SpawnThread ==
  /\ \E ok \in BOOLEAN : Startup("thread", ok)
  /\ UNCHANGED <<fnVars, daemonUp, hasEmitter, emitterFails, storeVars, lock, pc, argVars,
                 snapVars, elapsed, result, chanVars, engVars, pamVars>>

\* FaceModelStore::open(db_path).await?
OpenStore ==
  /\ \E ok \in BOOLEAN :
       /\ Startup("store", ok)
       /\ store' \in IF ok THEN {{}, SeedTemplates} ELSE {store}
  /\ UNCHANGED <<fnVars, daemonUp, hasEmitter, emitterFails, nextId, lock, pc, argVars,
                 snapVars, elapsed, result, chanVars, engVars, pamVars>>

\* zbus connection Builder: name(..)?.serve_at(..)?.build().await?
RegisterBus ==
  /\ \E ok \in BOOLEAN :
       /\ Startup("bus", ok)
       /\ daemonUp' = ok
  /\ UNCHANGED <<fnVars, hasEmitter, emitterFails, storeVars, lock, pc, argVars,
                 snapVars, elapsed, result, chanVars, engVars, pamVars>>

\* tokio::signal::ctrl_c().await returns: main returns Ok(()), the runtime
\* drops every handler and the process, engine thread included, ends. Nothing
\* else wakes main up: the JoinHandle of the engine thread is dropped at spawn.
Shutdown ==
  /\ boot.at = "serving"
  /\ boot' = [boot EXCEPT !.at = "exited"]
  /\ daemonUp' = FALSE
  /\ lock' = 0
  /\ pc' = [c \in Calls |-> IF pc[c] = "new" THEN "new" ELSE "closed"]
  /\ method' = [c \in Calls |-> "-"]
  /\ user' = [c \in Calls |-> NoUser]
  /\ arg' = [c \in Calls |-> 0]
  /\ gallery' = [c \in Calls |-> <<>>]
  /\ busyAtBegin' = [c \in Calls |-> FALSE]
  /\ elapsed' = [c \in Calls |-> FALSE]
  /\ result' = [c \in Calls |-> NoRes]
  /\ queue' = <<>>
  /\ reply' = [c \in Calls |-> NoRes]
  /\ rstate' = [c \in Calls |-> "none"]
  /\ acceptOrder' = <<>>
  /\ epc' = "dead"
  /\ cur' = NoReq
  /\ emitted' = {}
  /\ captured' = {}
  /\ UNCHANGED <<fnVars, hasEmitter, emitterFails, storeVars, pamVars>>

StartupStep ==
  \/ OpenCamera
  \/ LoadDetector
  \/ LoadRecognizer
  \/ ProbeEmitter
  \/ DiscardWarmup
  \/ SpawnThread
  \/ OpenStore
  \/ RegisterBus

\* ------------------------------------------- visaged: dbus_interface.rs
RemoveArgs == 1..MaxSeedId

\* A client other than the PAM module (the CLI) calls one of the methods ms
\* for one of the users us.
BeginWith(c, ms, us, ids) ==
  /\ daemonUp
  /\ NextCall(c)
  /\ \E m \in ms, u \in us, a \in ids :
       /\ method' = [method EXCEPT ![c] = m]
       /\ user' = [user EXCEPT ![c] = IF m = "Status" THEN NoUser ELSE u]
       /\ arg' = [arg EXCEPT ![c] = IF m = "RemoveModel" THEN a ELSE 0]
  /\ pc' = [pc EXCEPT ![c] = "lock"]
  /\ busyAtBegin' = [busyAtBegin EXCEPT ![c] = acceptOrder # <<>>]
  /\ UNCHANGED <<fnVars, cfgVars, storeVars, lock, gallery, elapsed, result, chanVars, engVars,
                 pamVars>>

BeginOf(c, ms, us) == BeginWith(c, ms, us, RemoveArgs)

Begin(c) == BeginOf(c, Methods, Users)

\* self.state.lock().await
Acquire(c) ==
  /\ pc[c] \in {"lock", "lock2"}
  /\ lock = 0
  /\ lock' = c
  /\ pc' = [pc EXCEPT ![c] = IF pc[c] = "lock" THEN "locked" ELSE "locked2"]
  /\ UNCHANGED <<fnVars, cfgVars, storeVars, argVars, snapVars, elapsed, result, chanVars, engVars,
                 pamVars>>

\* The handler returns r to its caller.
Return(c, r) ==
  /\ pc' = [pc EXCEPT ![c] = "done"]
  /\ result' = [result EXCEPT ![c] = r]
  /\ UNCHANGED <<gallery, busyAtBegin>>
  /\ elapsed' = [elapsed EXCEPT ![c] = FALSE]
  /\ arg' = [arg EXCEPT ![c] = 0]
  /\ UNCHANGED <<method, user>>

\* A handler that keeps the guard across the engine call.
KeepsLock(c) == c

\* The holder of the lock once the snapshot block of enroll / verify has ended.
LockAfterSnapshot(c) == 0

\* enroll: copy the engine handle and frames_per_enroll, drop the guard.
EnrollSnapshot(c) ==
  /\ pc[c] = "locked" /\ method[c] = "Enroll"
  /\ lock' = LockAfterSnapshot(c)
  /\ pc' = [pc EXCEPT ![c] = "send"]
  /\ UNCHANGED <<fnVars, cfgVars, storeVars, argVars, snapVars, elapsed, result, chanVars, engVars,
                 pamVars>>

\* A handler that asks for the gallery of the other user.
OtherOwner(c) == IF user[c] = "alice" THEN "bob" ELSE "alice"

\* The user whose gallery the verify handler asks the store for.
GalleryOwner(c) == user[c]

\* A handler that sends every gallery to the engine.
NeverStops(g) == FALSE

\* verify stops before the engine call when the gallery snapshot is empty.
StopsOnGallery(g) == Len(g) = 0

\* verify: fetch the gallery and the config scalars, drop the guard, and fail
\* at once when the store query failed or the gallery is empty.
VerifySnapshot(c) ==
  /\ pc[c] = "locked" /\ method[c] = "Verify"
  /\ \E storeOk \in BOOLEAN :
       IF ~storeOk THEN Return(c, Err("StoreError"))
       ELSE LET g == GalleryForUser(store, GalleryOwner(c))
            IN IF StopsOnGallery(g) THEN Return(c, Err("no enrolled models"))
               ELSE /\ gallery' = [gallery EXCEPT ![c] = g]
                    /\ pc' = [pc EXCEPT ![c] = "send"]
                    /\ UNCHANGED <<result, elapsed, argVars, busyAtBegin>>
  /\ lock' = LockAfterSnapshot(c)
  /\ UNCHANGED <<fnVars, cfgVars, storeVars, chanVars, engVars, pamVars>>

\* The EngineRequest a handler builds.
Request(c) ==
  IF method[c] = "Enroll"
  THEN [call |-> c, kind |-> "Enroll", gallery |-> <<>>, threshold |-> 0,
        frames_count |-> FramesPerEnroll]
  ELSE [call |-> c, kind |-> "Verify", gallery |-> gallery[c],
        threshold |-> SimilarityThreshold, frames_count |-> FramesPerVerify]

\* EngineHandle::enroll / verify, first half: self.tx.send(..).await
\* A channel without a capacity.
Unbounded(q) == FALSE

\* The channel holds as many requests as mpsc::channel was created for.
QueueFull(q) == Len(q) >= QueueCap

Send(c) ==
  /\ pc[c] = "send"
  /\ epc # "dead"
  /\ ~QueueFull(queue)
  /\ queue' = Append(queue, Request(c))
  /\ rstate' = [rstate EXCEPT ![c] = "queued"]
  /\ acceptOrder' = Append(acceptOrder, c)
  /\ pc' = [pc EXCEPT ![c] = "wait"]
  /\ UNCHANGED <<fnVars, cfgVars, storeVars, lock, argVars, snapVars, elapsed, result, reply,
                 engVars, pamVars>>

\* tx.send(..).await after the engine thread has ended (the receiver of the
\* request channel is gone): map_err(|_| EngineError::ChannelClosed)?
SendFails(c) ==
  /\ pc[c] = "send"
  /\ epc = "dead"
  /\ Return(c, Err("ChannelClosed"))
  /\ UNCHANGED <<fnVars, cfgVars, storeVars, lock, chanVars, engVars, pamVars>>

\* The wall clock passes the verify timeout (verify_timeout_secs) of a call
\* that waits for the engine. EngineHandle::verify takes no timeout and
\* awaits reply_rx alone: nothing in the handler observes the deadline.
DeadlinePasses(c) ==
  /\ pc[c] = "wait" /\ method[c] = "Verify"
  /\ ~elapsed[c]
  /\ elapsed' = [elapsed EXCEPT ![c] = TRUE]
  /\ UNCHANGED <<fnVars, cfgVars, storeVars, lock, pc, argVars, snapVars, result, chanVars,
                 engVars, pamVars>>

\* EngineHandle::enroll / verify, second half: reply_rx.await, then the
\* handler's map_err / Ok(result.result.matched).
RecvReply(c) ==
  /\ pc[c] = "wait"
  /\ reply[c].tag # "none"
  /\ IF reply[c].tag = "closed"
     THEN /\ Return(c, Err("ChannelClosed"))
          /\ reply' = [reply EXCEPT ![c] = NoRes]
     ELSE IF reply[c].tag = "err"
     THEN /\ Return(c, Err(reply[c].err))
          /\ reply' = [reply EXCEPT ![c] = NoRes]
     ELSE IF method[c] = "Verify"
     THEN /\ Return(c, Ok(reply[c].val.result.matched))
          /\ reply' = [reply EXCEPT ![c] = NoRes]
     ELSE /\ pc' = [pc EXCEPT ![c] = "lock2"]
          /\ UNCHANGED <<result, snapVars, elapsed, argVars, reply>>
  /\ UNCHANGED <<fnVars, cfgVars, storeVars, lock, queue, rstate, acceptOrder, engVars, pamVars>>

\* The user a new template is stored for: the handler's `user` argument.
EnrollOwner(c) == user[c]

\* enroll: store.insert under the re-acquired lock.
EnrollInsert(c) ==
  /\ pc[c] = "locked2"
  /\ \E storeOk \in BOOLEAN :
       IF storeOk
       THEN /\ store' = StoreInsert(store, nextId, EnrollOwner(c), reply[c].val.embedding)
            /\ nextId' = nextId + 1
            /\ Return(c, Ok(nextId))
       ELSE /\ Return(c, Err("StoreError"))
            /\ UNCHANGED <<store, nextId>>
  /\ reply' = [reply EXCEPT ![c] = NoRes]
  /\ lock' = 0
  /\ UNCHANGED <<fnVars, cfgVars, queue, rstate, acceptOrder, engVars, pamVars>>

\* A status handler that propagates the error of count_all with `?`.
StatusPropagates(storeOk) ==
  IF storeOk
  THEN Ok([models_enrolled |-> CountAll(store), similarity_threshold |-> SimilarityThreshold])
  ELSE Err("StoreError")

\* status: count_all().await.unwrap_or(0) inside Ok(json!({..}).to_string()).
StatusReply(storeOk) ==
  Ok([models_enrolled |-> IF storeOk THEN CountAll(store) ELSE 0,
      similarity_threshold |-> SimilarityThreshold])

\* status: count_all().unwrap_or(0), always Ok.
Status(c) ==
  /\ pc[c] = "locked" /\ method[c] = "Status"
  /\ \E storeOk \in BOOLEAN : Return(c, StatusReply(storeOk))
  /\ lock' = 0
  /\ UNCHANGED <<fnVars, cfgVars, storeVars, chanVars, engVars, pamVars>>

ListModels(c) ==
  /\ pc[c] = "locked" /\ method[c] = "ListModels"
  /\ \E storeOk \in BOOLEAN :
       Return(c, IF storeOk THEN Ok(ListByUser(store, user[c])) ELSE Err("StoreError"))
  /\ lock' = 0
  /\ UNCHANGED <<fnVars, cfgVars, storeVars, chanVars, engVars, pamVars>>

\* A handler that removes the template for whoever owns it.
RecordOwner(c) ==
  IF \E r \in store : r.id = arg[c]
  THEN (CHOOSE r \in store : r.id = arg[c]).user
  ELSE user[c]

\* The user a removal is scoped to: the handler's `user` argument.
RemoveScope(c) == user[c]

RemoveModel(c) ==
  /\ pc[c] = "locked" /\ method[c] = "RemoveModel"
  /\ \E storeOk \in BOOLEAN :
       IF storeOk
       THEN /\ Return(c, Ok(StoreOwns(store, RemoveScope(c), arg[c])))
            /\ store' = StoreRemove(store, RemoveScope(c), arg[c])
       ELSE /\ Return(c, Err("StoreError"))
            /\ UNCHANGED store
  /\ lock' = 0
  /\ UNCHANGED <<fnVars, cfgVars, nextId, chanVars, engVars, pamVars>>

\* The handler's future is dropped while it awaits the engine (the task
\* serving the call is cancelled): in tx.send nothing was sent yet; in
\* reply_rx.await the receiving half of the reply channel is closed, and
\* the request stays where it is.
Cancel(c) ==
  /\ pc[c] \in {"send", "wait"}
  /\ pc' = [pc EXCEPT ![c] = IF rstate[c] \in {"queued", "running"} THEN "dropped"
                             ELSE "closed"]
  /\ reply' = [reply EXCEPT ![c] = NoRes]
  /\ rstate' = [rstate EXCEPT ![c] = IF rstate[c] = "done" THEN "none" ELSE rstate[c]]
  /\ emitted' = IF rstate[c] = "done" THEN emitted \ {c} ELSE emitted
  /\ captured' = IF rstate[c] = "done" THEN captured \ {c} ELSE captured
  /\ method' = [method EXCEPT ![c] = "-"]
  /\ user' = [user EXCEPT ![c] = NoUser]
  /\ gallery' = [gallery EXCEPT ![c] = <<>>]
  /\ busyAtBegin' = [busyAtBegin EXCEPT ![c] = FALSE]
  /\ elapsed' = [elapsed EXCEPT ![c] = FALSE]
  /\ UNCHANGED <<fnVars, cfgVars, storeVars, lock, arg, result, queue, acceptOrder, epc, cur,
                 pamVars>>

\* The bus library sends the handler's return value to the caller as the
\* method reply (or drops it when the caller no longer waits for it).
Deliver(c) ==
  /\ pc[c] = "done"
  /\ c = pamCall => pamPc # "waiting"
  /\ pc' = [pc EXCEPT ![c] = "closed"]
  /\ result' = [result EXCEPT ![c] = NoRes]
  /\ method' = [method EXCEPT ![c] = "-"]
  /\ user' = [user EXCEPT ![c] = NoUser]
  /\ gallery' = [gallery EXCEPT ![c] = <<>>]
  /\ busyAtBegin' = [busyAtBegin EXCEPT ![c] = FALSE]
  /\ rstate' = [rstate EXCEPT ![c] = "none"]
  /\ emitted' = emitted \ {c}
  /\ captured' = captured \ {c}
  /\ UNCHANGED <<fnVars, cfgVars, storeVars, lock, arg, elapsed, queue, reply,
                 acceptOrder, epc, cur, pamVars>>

\* ----------------------------------------------------- visaged: engine.rs
\* What capture_frames can hand to run_enroll / run_verify.
CapturedForEnroll == {Frames(r) : r \in CaptureFrames(FramesPerEnroll)}
CapturedForVerify == {Frames(r) : r \in CaptureFrames(FramesPerVerify)}
CaptureResults(kind) ==
  IF kind = "Enroll" THEN CapturedForEnroll ELSE CapturedForVerify

\* A consumer that takes requests while one is being executed.
AlwaysReady == TRUE

\* The engine thread can take the next request: rx.blocking_recv() is called
\* only at the top of the loop.
EngineReady == epc = "idle"

\* A channel that hands out the newest request.
LastQueued(q) == q[Len(q)]

\* The request blocking_recv hands to the engine thread.
Dequeued(q) == Head(q)

\* while let Some(req) = rx.blocking_recv()
\* A receive that leaves the request it returns in the channel.
PeeksQueue(q) == q

\* The channel once blocking_recv has taken its request out.
AfterRecv(q) == SelectSeq(q, LAMBDA r : r # Dequeued(q))

EngineRecv ==
  /\ EngineReady
  /\ queue # <<>>
  /\ cur' = Dequeued(queue)
  /\ queue' = AfterRecv(queue)
  /\ rstate' = [rstate EXCEPT ![Dequeued(queue).call] = "running"]
  /\ epc' = "activate"
  /\ UNCHANGED <<fnVars, cfgVars, storeVars, lock, pc, argVars, snapVars, elapsed, result, reply,
                 acceptOrder, emitted, captured, pamVars>>

\* What e.activate() / e.deactivate() returns on this hardware.
EmitterCall(op) == IF op \in emitterFails THEN Err("Emitter") ELSE Ok(TRUE)

\* A run_enroll / run_verify that leaves with `?` on a failed activation.
ReturnsOnEmitterError(activated) == IF activated.tag = "err" THEN "infer" ELSE "capture"

\* Where run_enroll / run_verify goes after activate_emitter, which returns
\* nothing: on to camera.capture_frames.
AfterActivate(activated) == "capture"

\* activate_emitter: an ioctl failure is logged and swallowed.
EngineActivate ==
  /\ epc = "activate"
  /\ emitted' = IF hasEmitter THEN emitted \cup {cur.call} ELSE emitted
  /\ epc' = IF hasEmitter THEN AfterActivate(EmitterCall("activate")) ELSE "capture"
  /\ UNCHANGED <<fnVars, cfgVars, storeVars, lock, pc, argVars, snapVars, elapsed, result, chanVars,
                 cur, captured, pamVars>>

\* A run_enroll / run_verify that applies `?` to capture_frames at once.
ReturnsOnCaptureError(capture_failed) == IF capture_failed THEN "infer" ELSE "deactivate"

\* Where run_enroll / run_verify goes after `let capture_result =
\* camera.capture_frames(..)`: on to deactivate_emitter, whether the capture
\* failed or not; `capture_result?` comes after it.
AfterCapture(capture_failed) == "deactivate"

\* camera.capture_frames(frames_count). What the camera delivered is read
\* only by the inference after deactivate_emitter, and is chosen there.
EngineCapture ==
  /\ epc = "capture"
  /\ captured' = captured \cup {cur.call}
  /\ \E capture_failed \in BOOLEAN : epc' = AfterCapture(capture_failed)
  /\ UNCHANGED <<fnVars, cfgVars, storeVars, lock, pc, argVars, snapVars, elapsed, result, chanVars,
                 cur, emitted, pamVars>>

\* Where run_enroll / run_verify goes after deactivate_emitter, which
\* returns nothing: on to `capture_result?` and the inference.
AfterDeactivate(deactivated) == "infer"

\* deactivate_emitter: an ioctl failure is logged and swallowed.
EngineDeactivate ==
  /\ epc = "deactivate"
  /\ epc' = IF hasEmitter THEN AfterDeactivate(EmitterCall("deactivate")) ELSE "infer"
  /\ UNCHANGED <<fnVars, cfgVars, storeVars, lock, pc, argVars, snapVars, elapsed, result, chanVars,
                 cur, emitted, captured, pamVars>>

\* The receiving half of a call's reply channel still exists.
ReplyOpen(c) == pc[c] # "dropped"

\* The sending half of a reply channel was dropped without a value.
SenderDropped == [tag |-> "closed"]

\* A thread end that drops only the request it was running.
OnlyRunning(c) == rstate[c] = "running"

\* The requests that are dropped with the engine thread: the one it runs
\* (its stack unwinds) and those in the request channel (dropped with the
\* receiver); each takes the sending half of its reply channel with it.
DroppedWithThread(c) == rstate[c] \in {"queued", "running"}

\* The engine thread ends while it runs a request (a panic inside
\* run_enroll / run_verify): the closure and everything it owns is dropped.
EngineDies ==
  /\ epc \notin {"idle", "dead"}
  /\ epc' = "dead"
  /\ cur' = NoReq
  /\ queue' = <<>>
  /\ acceptOrder' = <<>>
  /\ reply' = [c \in Calls |-> IF DroppedWithThread(c) /\ ReplyOpen(c)
                                THEN SenderDropped ELSE reply[c]]
  /\ rstate' = [c \in Calls |-> IF DroppedWithThread(c) THEN "none" ELSE rstate[c]]
  /\ emitted' = {c \in emitted : ~DroppedWithThread(c)}
  /\ captured' = {c \in captured : ~DroppedWithThread(c)}
  /\ UNCHANGED <<fnVars, cfgVars, storeVars, lock, pc, argVars, snapVars, elapsed, result, pamVars>>

\* An engine thread that unwraps the outcome of reply.send.
DiesOnClosedReply(res, delivered) == IF delivered THEN "idle" ELSE "dead"

\* An engine thread that unwraps the capture result.
DiesOnCameraError(res, delivered) ==
  IF res = Err("Camera") THEN "dead" ELSE "idle"

\* Where the engine thread is after `let _ = reply.send(result)`: back at
\* the top of its loop, whatever the result and whether or not the receiver
\* of the reply still existed.
AfterReply(res, delivered) == "idle"

\* An engine that reads the user's templates from the store when it compares.
LiveGallery(req) == SortById({r \in store : r.user = user[req.call]})

\* The gallery run_verify compares with: the Vec<FaceModel> that came in the
\* request.
ComparedGallery(req) == req.gallery

\* The rest of run_enroll / run_verify, then `let _ = reply.send(result)`.
\* A result sent on a closed reply channel is discarded.
EngineReply ==
  /\ epc = "infer"
  /\ \E capture_result \in CaptureResults(cur.kind) :
       LET res == IF cur.kind = "Enroll" THEN RunEnroll(capture_result)
                  ELSE RunVerify(capture_result, ComparedGallery(cur), cur.threshold)
       IN /\ reply' = IF ReplyOpen(cur.call) THEN [reply EXCEPT ![cur.call] = res]
                       ELSE reply
          /\ epc' = AfterReply(res, ReplyOpen(cur.call))
  /\ rstate' = [rstate EXCEPT ![cur.call] = IF ReplyOpen(cur.call) THEN "done" ELSE "none"]
  /\ emitted' = IF ReplyOpen(cur.call) THEN emitted ELSE emitted \ {cur.call}
  /\ captured' = IF ReplyOpen(cur.call) THEN captured ELSE captured \ {cur.call}
  /\ acceptOrder' = SelectSeq(acceptOrder, LAMBDA c : c # cur.call)
  /\ cur' = NoReq
  /\ UNCHANGED <<fnVars, cfgVars, storeVars, lock, pc, argVars, snapVars, elapsed, result, queue,
                 pamVars>>

\* ------------------------------------------------------ pam-visage: lib.rs
\* What pam_sm_authenticate returns for each outcome of its body:
\* the early returns, the three arms of the match on verify_face, and
\* result.unwrap_or(PAM_IGNORE) for a caught panic.
\* A variant that answers an error of verify_face with PAM_AUTH_ERR (7).
PamReturnAuthErr(outcome) ==
  IF outcome = "Ok_true" THEN PAM_SUCCESS
  ELSE IF outcome = "Err" THEN 7 ELSE PAM_IGNORE

\* A variant that takes any reply of the daemon for a match.
PamReturnAnyReply(outcome) ==
  IF outcome \in {"Ok_true", "Ok_false"} THEN PAM_SUCCESS ELSE PAM_IGNORE

PamReturn(outcome) ==
  CASE outcome = "Ok_true" -> PAM_SUCCESS
    [] outcome = "Ok_false" -> PAM_IGNORE
    [] outcome = "Err" -> PAM_IGNORE
    [] outcome = "early" -> PAM_IGNORE
    [] outcome = "panic" -> PAM_IGNORE

PamFinish(outcome, path) ==
  /\ pamPc' = "returned"
  /\ pamGot' = outcome
  /\ pamRet' = PamReturn(outcome)
  /\ pamPath' = path

\* pam_get_user and the UTF-8 check of the username.
PamGetUser ==
  /\ pamPc = "entry"
  /\ \/ \E path \in {"get_user_failed", "null_user", "not_utf8"} :
          /\ PamFinish("early", path)
          /\ UNCHANGED pamUser
     \/ \E u \in Users :
          /\ pamUser' = u
          /\ pamPc' = "verify_face"
          /\ UNCHANGED <<pamGot, pamRet, pamPath>>
  /\ UNCHANGED <<fnVars, cfgVars, storeVars, lock, pc, argVars, snapVars, elapsed, result, chanVars,
                 engVars, pamCall, setcredRet>>

\* verify_face fails before any call is made: the daemon is not on the bus,
\* or the connection to the bus fails.
PamConnectFails ==
  /\ pamPc = "verify_face"
  /\ \/ ~daemonUp /\ PamFinish("Err", "daemon_absent")
     \/ PamFinish("Err", "ipc_error")
  /\ UNCHANGED <<fnVars, cfgVars, storeVars, lock, pc, argVars, snapVars, elapsed, result, chanVars,
                 engVars, pamUser, pamCall, setcredRet>>

\* The user argument of the Verify call verify_face makes.
VerifyArg == pamUser

\* verify_face: proxy.verify(username) sends Verify to the daemon.
PamCallVerify(c) ==
  /\ pamPc = "verify_face"
  /\ daemonUp
  /\ NextCall(c)
  /\ pamCall' = c
  /\ method' = [method EXCEPT ![c] = "Verify"]
  /\ user' = [user EXCEPT ![c] = VerifyArg]
  /\ pc' = [pc EXCEPT ![c] = "lock"]
  /\ pamPc' = "waiting"
  /\ UNCHANGED <<fnVars, cfgVars, storeVars, lock, arg, snapVars, elapsed, result, chanVars,
                 engVars, pamUser, pamGot, pamRet, pamPath, setcredRet>>

\* What proxy.verify(username) hands back for a D-Bus reply.
VerifyFaceResult(r) ==
  IF r.tag = "err" THEN "Err" ELSE IF r.val THEN "Ok_true" ELSE "Ok_false"

\* The module is still inside proxy.verify when a reply arrives.
StillWaiting == pamPc = "waiting"

\* The daemon's reply reaches the module while it is still waiting.
PamReceive ==
  /\ StillWaiting
  /\ pamCall # 0
  /\ pc[pamCall] = "done"
  /\ PamFinish(VerifyFaceResult(result[pamCall]), "reply")
  /\ pc' = [pc EXCEPT ![pamCall] = "closed"]
  /\ result' = [result EXCEPT ![pamCall] = NoRes]
  /\ method' = [method EXCEPT ![pamCall] = "-"]
  /\ user' = [user EXCEPT ![pamCall] = NoUser]
  /\ gallery' = [gallery EXCEPT ![pamCall] = <<>>]
  /\ busyAtBegin' = [busyAtBegin EXCEPT ![pamCall] = FALSE]
  /\ rstate' = [rstate EXCEPT ![pamCall] = "none"]
  /\ emitted' = emitted \ {pamCall}
  /\ captured' = captured \ {pamCall}
  /\ UNCHANGED <<fnVars, cfgVars, storeVars, lock, arg, elapsed, queue, reply,
                 acceptOrder, epc, cur, pamUser, pamCall, setcredRet>>

\* A connection built without a method timeout.
NoCallTimeout == FALSE

\* The connection is built with .method_timeout(3 s).
CallTimeoutArmed == TRUE

\* The method timeout fires: proxy.verify returns Err.
PamTimeout ==
  /\ pamPc = "waiting"
  /\ CallTimeoutArmed
  /\ PamFinish("Err", "timeout")
  /\ UNCHANGED <<fnVars, cfgVars, storeVars, lock, pc, argVars, snapVars, elapsed, result, chanVars,
                 engVars, pamUser, pamCall, setcredRet>>

\* A panic inside verify_face, caught by catch_unwind.
PamPanic ==
  /\ pamPc \in {"verify_face", "waiting"}
  /\ PamFinish("panic", "panic")
  /\ UNCHANGED <<fnVars, cfgVars, storeVars, lock, pc, argVars, snapVars, elapsed, result, chanVars,
                 engVars, pamUser, pamCall, setcredRet>>

\* pam_sm_setcred
SetcredReturn == PAM_IGNORE

\* The PAM stack calls pam_sm_setcred once pam_sm_authenticate has returned.
PamSetcred ==
  /\ pamPc = "returned"
  /\ setcredRet = -1
  /\ setcredRet' = SetcredReturn
  /\ UNCHANGED <<fnVars, cfgVars, storeVars, lock, pc, argVars, snapVars, elapsed, result, chanVars,
                 engVars, pamPc, pamUser, pamCall, pamGot, pamRet, pamPath>>

\* ---------------------------------------------------------- specification
LockStep(c) ==
  \/ Acquire(c)
  \/ EnrollSnapshot(c)
  \/ VerifySnapshot(c)
  \/ EnrollInsert(c)
  \/ Status(c)
  \/ ListModels(c)
  \/ RemoveModel(c)

HandlerStep(c) ==
  \/ LockStep(c)
  \/ Send(c)
  \/ RecvReply(c)
  \/ Deliver(c)

EngineStep ==
  \/ EngineRecv
  \/ EngineActivate
  \/ EngineCapture
  \/ EngineDeactivate
  \/ EngineReply

\* The daemon serving up to MaxCalls calls of its clients.
ApiCalls == 1..MaxCalls

Next ==
  \/ \E c \in ApiCalls : Begin(c)
  \/ \E c \in ApiCalls : HandlerStep(c)
  \/ EngineStep

Spec == Init /\ [][Next]_vars

\* The daemon, with the wall clock running against the verify timeout.
DeadlineNext ==
  \/ Next
  \/ \E c \in Calls : DeadlinePasses(c)

DeadlineSpec == Init /\ [][DeadlineNext]_vars

\* The daemon serving up to MaxOverlappingCalls calls. The task runtime polls
\* every ready handler; nothing is assumed of the engine thread, which may be
\* stuck in a capture or an inference for ever.
OverlappingCalls == 1..MaxOverlappingCalls

LiveNext ==
  \/ \E c \in OverlappingCalls : Begin(c)
  \/ \E c \in OverlappingCalls : HandlerStep(c)
  \/ EngineStep

LiveSpec ==
  /\ Init
  /\ [][LiveNext]_vars
  /\ \A c \in OverlappingCalls : WF_vars(LockStep(c))

\* A client calls Enroll or Verify.
BeginEngineCall(c) == BeginOf(c, {"Enroll", "Verify"}, Users)

EngineCallStep(c) ==
  \/ Acquire(c)
  \/ EnrollSnapshot(c)
  \/ VerifySnapshot(c)
  \/ EnrollInsert(c)
  \/ Send(c)
  \/ RecvReply(c)
  \/ Deliver(c)

\* The daemon serving up to MaxEngineCalls calls that all go to the engine,
\* made for one user.
EngineCalls == 1..MaxEngineCalls

BeginQueueCall(c) == BeginOf(c, {"Enroll", "Verify"}, {"alice"})

QueueNext ==
  \/ \E c \in EngineCalls : BeginQueueCall(c)
  \/ \E c \in EngineCalls : EngineCallStep(c)
  \/ EngineStep

\* The daemon is up and both users are enrolled when the run starts.
QueueInit == Init /\ daemonUp /\ store = SeedTemplates

QueueSpec == QueueInit /\ [][QueueNext]_vars

\* The daemon serving up to MaxOverlappingCalls engine calls whose handlers
\* may be dropped while they await the engine.
CancelNext ==
  \/ \E c \in OverlappingCalls : BeginQueueCall(c)
  \/ \E c \in OverlappingCalls : EngineCallStep(c)
  \/ \E c \in OverlappingCalls : Cancel(c)
  \/ EngineStep

CancelSpec == QueueInit /\ [][CancelNext]_vars

\* The daemon serving up to MaxOverlappingCalls engine calls while the
\* engine thread may end; every handler keeps being polled.
FaultCallStep(c) ==
  \/ EngineCallStep(c)
  \/ SendFails(c)

FaultNext ==
  \/ \E c \in OverlappingCalls : BeginQueueCall(c)
  \/ \E c \in OverlappingCalls : FaultCallStep(c)
  \/ EngineStep
  \/ EngineDies

FaultSpec ==
  QueueInit /\ [][FaultNext]_vars /\ \A c \in OverlappingCalls : WF_vars(FaultCallStep(c))

\* The daemon serving up to MaxOverlappingCalls calls that read or change
\* the template store, the id of a template enrolled meanwhile among the
\* ids asked to be removed; the engine thread may end.
StoreMethods == {"Enroll", "ListModels", "RemoveModel"}
StoreArgs == 1..(MaxSeedId + 1)

BeginStoreCall(c) == BeginWith(c, StoreMethods, Users, StoreArgs)

StoreCallStep(c) ==
  \/ Acquire(c)
  \/ EnrollSnapshot(c)
  \/ EnrollInsert(c)
  \/ ListModels(c)
  \/ RemoveModel(c)
  \/ Send(c)
  \/ SendFails(c)
  \/ RecvReply(c)
  \/ Deliver(c)

StoreNext ==
  \/ \E c \in OverlappingCalls : BeginStoreCall(c)
  \/ \E c \in OverlappingCalls : StoreCallStep(c)
  \/ EngineStep
  \/ EngineDies

StoreSpec == QueueInit /\ [][StoreNext]_vars

\* The daemon serving up to MaxEngineCalls calls, each a Status or a
\* Verify that keeps the engine and its queue busy; the engine thread may end.
BeginStatusCall(c) == BeginOf(c, {"Status", "Verify"}, {"alice"})

StatusCallStep(c) ==
  \/ Acquire(c)
  \/ VerifySnapshot(c)
  \/ Status(c)
  \/ Send(c)
  \/ SendFails(c)
  \/ RecvReply(c)
  \/ Deliver(c)

StatusNext ==
  \/ \E c \in EngineCalls : BeginStatusCall(c)
  \/ \E c \in EngineCalls : StatusCallStep(c)
  \/ EngineStep
  \/ EngineDies

StatusSpec == QueueInit /\ [][StatusNext]_vars

\* CosineMatcher::compare called on a probe, a gallery of up to MaxGallery
\* templates and a threshold.
Embeddings == {<<1, 0>>, <<0, 1>>, <<3, 4>>, <<-1, 0>>, <<0, 0>>}
Thresholds == {0, SimilarityThreshold, 100}

GalleryOf(embs) == [i \in DOMAIN embs |-> [id |-> i, user |-> "alice", emb |-> embs[i]]]
Galleries == {GalleryOf(embs) : embs \in UNION {[1..n -> Embeddings] : n \in 0..MaxGallery}}

MatcherInit ==
  /\ Library
  /\ input \in [fn : {"compare"}, probe : Embeddings, gallery : Galleries,
                 threshold : Thresholds]

CallCompare ==
  /\ input.fn = "compare" /\ output = NoRes
  /\ output' = Ok([result |-> Compare(input.probe, input.gallery, input.threshold),
                   computed |-> CompareLoop(input.probe, input.gallery, 1,
                                            NegInfinity, 0).computed])
  /\ UNCHANGED <<input, cfgVars, storeVars, lock, pc, argVars, snapVars, elapsed, result,
                 chanVars, engVars, pamVars>>

MatcherNext == CallCompare

MatcherSpec == MatcherInit /\ [][MatcherNext]_vars

\* Camera::capture_frames called for up to MaxCount frames, the driver
\* choosing what each dequeue gives.
CaptureInit ==
  /\ Library
  /\ input \in [fn : {"capture_frames"}, count : 0..MaxCount]

CallCaptureFrames ==
  /\ input.fn = "capture_frames" /\ output = NoRes
  /\ output' \in CaptureFrames(input.count)
  /\ UNCHANGED <<input, cfgVars, storeVars, lock, pc, argVars, snapVars, elapsed, result,
                 chanVars, engVars, pamVars>>

CaptureNext == CallCaptureFrames

CaptureSpec == CaptureInit /\ [][CaptureNext]_vars

\* The daemon serving up to MaxCalls engine calls on hardware with or
\* without an emitter, whose activation and deactivation may fail.
EmitterOps == {"activate", "deactivate"}

EmitterInit ==
  /\ daemonUp = TRUE
  /\ boot = Serving
  /\ hasEmitter \in BOOLEAN
  /\ emitterFails \in SUBSET EmitterOps
  /\ store = SeedTemplates
  /\ input = NoInput
  /\ output = NoRes
  /\ Started

EmitterNext ==
  \/ \E c \in ApiCalls : BeginEngineCall(c)
  \/ \E c \in ApiCalls : EngineCallStep(c)
  \/ EngineStep

EmitterSpec == EmitterInit /\ [][EmitterNext]_vars

\* The daemon serving up to MaxOverlappingCalls engine calls with a camera
\* that may fail in any capture.
CameraNext ==
  \/ \E c \in OverlappingCalls : BeginQueueCall(c)
  \/ \E c \in OverlappingCalls : EngineCallStep(c)
  \/ EngineStep

CameraSpec == QueueInit /\ [][CameraNext]_vars

\* run_enroll / run_verify called after a capture that gave up to MaxFrames
\* frames, with every outcome of detection on each frame.
CapturedFrames == UNION {[1..n -> AllFrameKinds] : n \in 0..MaxFrames}
Captures == {Err("CaptureFailed")} \cup {Ok(frames) : frames \in CapturedFrames}
VerifyGalleries ==
  {GalleryOf(<<>>), GalleryOf(<< <<1, 0>> >>), GalleryOf(<< <<0, 1>>, <<3, 4>> >>)}

InferInit ==
  /\ Library
  /\ input \in [fn : {"run_enroll"}, capture : Captures]
              \cup [fn : {"run_verify"}, capture : Captures, gallery : VerifyGalleries,
                     threshold : {SimilarityThreshold}]

CallRunEnroll ==
  /\ input.fn = "run_enroll" /\ output = NoRes
  /\ output' = RunEnroll(input.capture)
  /\ UNCHANGED <<input, cfgVars, storeVars, lock, pc, argVars, snapVars, elapsed, result,
                 chanVars, engVars, pamVars>>

CallRunVerify ==
  /\ input.fn = "run_verify" /\ output = NoRes
  /\ output' = RunVerify(input.capture, input.gallery, input.threshold)
  /\ UNCHANGED <<input, cfgVars, storeVars, lock, pc, argVars, snapVars, elapsed, result,
                 chanVars, engVars, pamVars>>

InferNext ==
  \/ CallRunEnroll
  \/ CallRunVerify

InferSpec == InferInit /\ [][InferNext]_vars

\* The daemon from the start of main on, then serving up to MaxCalls calls.
StartupInit ==
  /\ daemonUp = FALSE
  /\ boot = [at |-> "camera", done |-> <<>>, failed |-> "-"]
  /\ hasEmitter = FALSE
  /\ emitterFails = {}
  /\ store = {}
  /\ input = NoInput
  /\ output = NoRes
  /\ Started

StartupNext ==
  \/ StartupStep
  \/ \E c \in ApiCalls : Begin(c)
  \/ \E c \in ApiCalls : HandlerStep(c)
  \/ EngineStep

StartupSpec == StartupInit /\ [][StartupNext]_vars

\* The daemon serving up to MaxOverlappingCalls engine calls until the
\* shutdown signal, while the engine thread may end; handlers and the engine
\* thread keep running, the signal may never come.
ExitNext ==
  \/ FaultNext
  \/ Shutdown

ExitSpec ==
  /\ QueueInit
  /\ [][ExitNext]_vars
  /\ \A c \in OverlappingCalls : WF_vars(FaultCallStep(c))
  /\ WF_vars(EngineStep)

\* The daemon serving up to MaxOverlappingCalls calls for one user, each a
\* Verify, an Enroll or a RemoveModel.
BeginSnapshotCall(c) == BeginOf(c, {"Verify", "Enroll", "RemoveModel"}, {"alice"})

SnapshotCallStep(c) ==
  \/ EngineCallStep(c)
  \/ RemoveModel(c)

SnapshotNext ==
  \/ \E c \in OverlappingCalls : BeginSnapshotCall(c)
  \/ \E c \in OverlappingCalls : SnapshotCallStep(c)
  \/ EngineStep

SnapshotSpec == QueueInit /\ [][SnapshotNext]_vars

\* nms called on up to MaxBoxes detections: boxes of one size along a line,
\* some overlapping above the threshold, some below, some not at all.
BoxOffsets == {0, 2, 4, 20}
Confidences == {60, 90}
BoxSide == 6

BoxesOf(bs) ==
  [i \in DOMAIN bs |-> [x |-> bs[i][1], y |-> 0, width |-> BoxSide, height |-> BoxSide,
                         confidence |-> bs[i][2], idx |-> i]]
Detections ==
  {BoxesOf(bs) : bs \in UNION {[1..n -> BoxOffsets \X Confidences] : n \in 0..MaxBoxes}}

NmsInit ==
  /\ Library
  /\ input \in [fn : {"nms"}, detections : Detections, iou_threshold : {SCRFD_NMS_THRESHOLD}]

CallNms ==
  /\ input.fn = "nms" /\ output = NoRes
  /\ output' = Ok(Nms(input.detections, input.iou_threshold))
  /\ UNCHANGED <<input, cfgVars, storeVars, lock, pc, argVars, snapVars, elapsed, result,
                 chanVars, engVars, pamVars>>

NmsNext == CallNms

NmsSpec == NmsInit /\ [][NmsNext]_vars

\* A login through the PAM module, with the daemon serving up to
\* MaxPamCalls calls: the module's own and those of other clients.
PamCalls == 1..MaxPamCalls

\* The steps the module takes when nothing goes wrong inside it.
PamProgress ==
  \/ PamGetUser
  \/ PamConnectFails
  \/ \E c \in PamCalls : PamCallVerify(c)
  \/ PamReceive
  \/ PamTimeout

PamStep ==
  \/ PamProgress
  \/ PamPanic

PamNext ==
  \/ \E c \in PamCalls : BeginEngineCall(c)
  \/ \E c \in PamCalls : EngineCallStep(c)
  \/ EngineStep
  \/ PamStep
  \/ PamSetcred

PamSpec == Init /\ [][PamNext]_vars

\* The module's thread runs, and the bus library's timer runs with it;
\* nothing is assumed of the daemon, its engine or the other clients.
PamLiveSpec ==
  /\ Init
  /\ [][PamNext]_vars
  /\ WF_vars(PamProgress)

\* ------------------------------------------------------------ properties

\* C1: every return of the PAM entry points is 0 or 25: pam_sm_authenticate
\* returns 25 on every path other than a match delivered by the daemon
\* (pam_get_user failure, null or non-UTF-8 username, daemon absent, IPC
\* error, IPC timeout, reply false, failed Verify, panic), and
\* pam_sm_setcred returns 25.
C1_ReturnCodes ==
  /\ pamPc = "returned" => pamRet \in {0, 25}
  /\ pamPc # "returned" => pamRet = -1
  /\ (pamPc = "returned" /\ ~(pamPath = "reply" /\ pamGot = "Ok_true")) => pamRet = 25
  /\ (pamPc = "returned" /\ pamPath \in {"get_user_failed", "null_user", "not_utf8",
                                         "daemon_absent", "ipc_error", "timeout",
                                         "panic"}) => pamRet = 25
  /\ setcredRet \in {-1, 25}

\* The daemon answered Verify with an error for a user who has no template,
\* authenticate returned 25 and setcred returned 25 after it.
C1_Witness ==
  /\ pamPc = "returned" /\ pamPath = "reply" /\ pamGot = "Err"
  /\ \A r \in store : r.user # pamUser
  /\ pamRet = 25
  /\ setcredRet = 25

\* C2: pam_sm_authenticate returns 0 exactly when the Verify call it made
\* with the PAM handle's username delivered the reply true while the module
\* was still waiting; once the module has returned, a later true result of
\* the daemon changes nothing.
C2_SuccessStep ==
  /\ (pamRet' = 0 /\ pamRet # 0) =>
        /\ pamPc = "waiting" /\ pamCall # 0
        /\ pc[pamCall] = "done"
        /\ method[pamCall] = "Verify" /\ user[pamCall] = pamUser
        /\ result[pamCall].tag = "ok" /\ result[pamCall].val = TRUE
  /\ (pamPc = "waiting" /\ pamPc' = "returned" /\ pamPath' = "reply"
        /\ result[pamCall].tag = "ok" /\ result[pamCall].val = TRUE) => pamRet' = 0
  /\ pamPc = "returned" => (pamPc' = "returned" /\ pamRet' = pamRet)

C2_SuccessIffTrueReply == [][C2_SuccessStep]_vars

\* The module gave up on its call and returned 25; the daemon's handler
\* then finished that call with the result true.
C2_Witness ==
  /\ pamPc = "returned" /\ pamPath = "timeout" /\ pamRet = 25
  /\ pamCall # 0 /\ pc[pamCall] = "done"
  /\ result[pamCall].tag = "ok" /\ result[pamCall].val = TRUE

\* C3: pam_sm_authenticate always eventually returns, whatever the daemon
\* does: when no reply to Verify comes, the call timeout fires and the
\* entry point returns 25.
C3_AuthenticateReturns ==
  (pamPc # "returned") ~> (pamPc = "returned" /\ pamRet \in {0, 25})

\* The module returned 25 on the call timeout while the engine was still
\* in the capture of its request.
C3_Witness ==
  /\ pamPc = "returned" /\ pamPath = "timeout" /\ pamRet = 25
  /\ pamCall # 0 /\ rstate[pamCall] = "running"
  /\ epc = "capture"

\* C4: Verify(user) is decided only against templates owned by user: the
\* gallery handed to the engine holds exactly the store's records of that
\* user at the snapshot, the request carries that gallery unchanged, and a
\* match is reported only when one of the user's templates has similarity
\* >= the threshold with a captured face.
C4_OwnMatch(c) ==
  \E i \in DOMAIN gallery[c], f \in FacesSeen :
    /\ gallery[c][i].user = user[c]
    /\ Similarity(FaceTable[f].emb, gallery[c][i].emb) >= SimilarityThreshold

C4_State ==
  \A c \in Calls : method[c] = "Verify" =>
    /\ \A i \in DOMAIN gallery[c] : gallery[c][i].user = user[c]
    /\ rstate[c] = "queued" =>
         \E i \in DOMAIN queue : queue[i].call = c /\ queue[i].gallery = gallery[c]
    /\ rstate[c] = "running" => (cur.call = c /\ cur.gallery = gallery[c])
    /\ (reply[c].tag = "ok" /\ reply[c].val.result.matched) =>
         /\ C4_OwnMatch(c)
         /\ \E i \in DOMAIN gallery[c] :
              /\ gallery[c][i].id = reply[c].val.result.model_id
              /\ gallery[c][i].user = user[c]
    /\ (pc[c] = "done" /\ result[c].tag = "ok" /\ result[c].val = TRUE) => C4_OwnMatch(c)

C4_Step ==
  \A c \in Calls :
    (method[c] = "Verify" /\ pc[c] = "locked" /\ pc'[c] = "send") =>
      {gallery'[c][i] : i \in DOMAIN gallery'[c]} = {r \in store : r.user = user[c]}

C4_OwnTemplatesOnly == [](C4_State) /\ [][C4_Step]_vars

\* Verify(alice) was answered "no match" for a captured face that reaches
\* the threshold against a template of bob which is in the store.
C4_Witness ==
  \E c \in Calls :
    /\ method[c] = "Verify" /\ user[c] = "alice"
    /\ reply[c].tag = "ok" /\ ~reply[c].val.result.matched
    /\ reply[c].val.best_quality = FaceTable[2].conf
    /\ \E r \in store :
         /\ r.user = "bob"
         /\ Similarity(FaceTable[2].emb, r.emb) >= SimilarityThreshold

\* C5: Verify(user) for a user with no enrolled template returns a failure
\* reply, never a boolean, and no request of that call reaches the engine:
\* no emitter activation and no capture happens for it.
C5_State ==
  \A c \in Calls : method[c] = "Verify" =>
    /\ (pc[c] \in {"send", "wait"} \/ rstate[c] # "none") => gallery[c] # <<>>
    /\ (pc[c] = "done" /\ gallery[c] = <<>>) =>
         /\ result[c].tag = "err"
         /\ rstate[c] = "none" /\ reply[c].tag = "none"
         /\ c \notin emitted /\ c \notin captured

C5_Step ==
  \A c \in Calls :
    (method[c] = "Verify" /\ pc[c] = "locked" /\ pc'[c] # "locked"
       /\ \A r \in store : r.user # user[c]) =>
      /\ pc'[c] = "done" /\ result'[c].tag = "err"
      /\ queue' = queue /\ acceptOrder' = acceptOrder
      /\ emitted' = emitted /\ captured' = captured

C5_NoModelsFailsEarly == [](C5_State) /\ [][C5_Step]_vars

\* A Verify call for a user without templates has returned "no enrolled
\* models" while the store query itself succeeded.
C5_Witness ==
  \E c \in Calls :
    /\ method[c] = "Verify" /\ pc[c] = "done"
    /\ result[c] = Err("no enrolled models")
    /\ \A r \in store : r.user # user[c]

\* C6: a handler that waits for a free slot of the engine queue or for the
\* engine's reply does not hold the state mutex; enroll holds it again only
\* once the reply has arrived.
C6_NoLockWhileWaiting ==
  /\ \A c \in Calls : pc[c] \in {"send", "wait"} => lock # c
  /\ \A c \in Calls : pc[c] = "locked2" =>
       (lock = c /\ method[c] = "Enroll" /\ reply[c].tag = "ok" /\ rstate[c] = "done")
  /\ lock # 0 => pc[lock] \in {"locked", "locked2"}

\* The queue is full: one handler waits for a slot and the handlers of the
\* queued requests wait for their replies, none of them holding the lock.
C6_Witness ==
  \E c \in Calls :
    /\ pc[c] = "send" /\ Len(queue) = QueueCap
    /\ \A i \in DOMAIN queue : pc[queue[i].call] = "wait" /\ lock # queue[i].call
    /\ lock # c

\* C7: a Status, ListModels or RemoveModel call issued while requests are
\* queued at or running on the engine takes the lock and completes, with
\* no step of the engine needed for it.
C7_LockOnlyCallsComplete ==
  \A c \in OverlappingCalls :
    (pc[c] = "lock" /\ method[c] \in {"Status", "ListModels", "RemoveModel"})
      ~> (pc[c] \in {"done", "closed"})

\* A call that arrived while a request was pending has completed, and that
\* request is still queued or running.
C7_Witness ==
  \E c, d \in OverlappingCalls :
    /\ method[c] \in {"Status", "ListModels", "RemoveModel"}
    /\ pc[c] = "done" /\ busyAtBegin[c]
    /\ d < c /\ rstate[d] \in {"queued", "running"}

\* C8: at most one Enroll or Verify request is being executed at any time:
\* the request the engine thread works on is the only one running, and
\* emitter and capture only ever happen for it.
C8_OneRequestAtATime ==
  /\ Cardinality({c \in Calls : rstate[c] = "running"}) <= 1
  /\ epc = "idle" <=> cur = NoReq
  /\ \A c \in Calls : rstate[c] = "running" <=> (cur # NoReq /\ cur.call = c)
  /\ \A c \in emitted \cup captured : rstate[c] \in {"running", "done"}

\* One request is in its capture while two more wait in the queue.
C8_Witness ==
  \E c \in Calls :
    /\ rstate[c] = "running" /\ c \in captured
    /\ Cardinality({d \in Calls : rstate[d] = "queued"}) = 2

\* C9: the engine executes requests in the order in which they entered the
\* queue, Enroll and Verify sharing one order: of the unfinished requests
\* only the oldest can be running, and the queue holds the others in their
\* order of entry.
C9_Fifo ==
  /\ \A i \in DOMAIN acceptOrder : i > 1 => rstate[acceptOrder[i]] = "queued"
  /\ \A c \in Calls :
       rstate[c] \in {"queued", "running"} <=> (\E i \in DOMAIN acceptOrder : acceptOrder[i] = c)
  /\ [i \in DOMAIN queue |-> queue[i].call] =
       (IF epc = "idle" THEN acceptOrder ELSE Tail(acceptOrder))

\* An Enroll that entered the queue first is running while a Verify that
\* arrived earlier on the bus but entered the queue later still waits.
C9_Witness ==
  /\ Len(acceptOrder) = 2
  /\ acceptOrder[1] > acceptOrder[2]
  /\ method[acceptOrder[1]] = "Enroll" /\ method[acceptOrder[2]] = "Verify"
  /\ rstate[acceptOrder[1]] = "running"

\* C10: each engine call of a handler is bounded by a timeout: once the
\* verify timeout has elapsed without a reply, the handler is no longer
\* waiting for the engine.
C10_HandlerStopsAtTimeout ==
  \A c \in Calls : ~(pc[c] = "wait" /\ elapsed[c])

\* C11: the engine tolerates a closed reply channel: a request whose caller
\* has gone stays queued, is executed to completion (emitter, capture,
\* inference), its result is discarded without a failure, and the engine is
\* back at the top of its loop with the queue untouched and ready to take
\* the next request.
C11_State ==
  /\ \A c \in Calls : pc[c] = "dropped" =>
       /\ reply[c].tag = "none"
       /\ rstate[c] \in {"none", "queued", "running"}
       /\ rstate[c] = "queued" => \E i \in DOMAIN queue : queue[i].call = c
       /\ rstate[c] = "running" => cur.call = c
  /\ epc \in {"idle", "activate", "capture", "deactivate", "infer"}
  /\ (epc = "idle" /\ queue # <<>>) => ENABLED EngineRecv

C11_Step ==
  (epc = "infer" /\ epc' # "infer" /\ ~ReplyOpen(cur.call)) =>
    /\ epc' = "idle"
    /\ cur.call \in emitted /\ cur.call \in captured
    /\ reply' = reply
    /\ queue' = queue
    /\ pc' = pc /\ result' = result /\ store' = store

C11_ClosedReplyTolerated == [](C11_State) /\ [][C11_Step]_vars

\* The engine is in the capture of a request whose handler was dropped,
\* while the request of another call waits in the queue.
C11_Witness ==
  \E c, d \in Calls :
    /\ pc[c] = "dropped" /\ rstate[c] = "running"
    /\ epc = "deactivate" /\ c \in captured
    /\ pc[d] = "wait" /\ rstate[d] = "queued"

\* C12: once the engine thread has ended, an Enroll or Verify call never
\* waits forever: a call at tx.send fails there with ChannelClosed, a call
\* whose request was queued or running fails with ChannelClosed when its
\* reply channel is dropped, and no request is accepted any more.
C12_Waiting(c) ==
  /\ epc = "dead"
  /\ pc[c] \in {"send", "wait"}
  /\ reply[c].tag \notin {"ok", "err"}

C12_State ==
  epc = "dead" =>
    /\ queue = <<>>
    /\ \A c \in Calls : rstate[c] \in {"none", "done"}
    /\ \A c \in Calls : (pc[c] = "wait" /\ rstate[c] = "none") => reply[c] = SenderDropped

C12_Step ==
  \A c \in Calls :
    (C12_Waiting(c) /\ pc'[c] # pc[c]) =>
      pc'[c] = "done" /\ result'[c] = Err("ChannelClosed")

C12_DeadEngineFailsCalls ==
  /\ [](C12_State)
  /\ [][C12_Step]_vars
  /\ \A c \in OverlappingCalls :
       C12_Waiting(c) ~> (pc[c] = "done" /\ result[c] = Err("ChannelClosed"))

\* The thread has ended with one call's request lost and the other call
\* at tx.send; the first call has already failed with ChannelClosed.
C12_Witness ==
  \E c, d \in Calls :
    /\ epc = "dead"
    /\ pc[c] = "done" /\ result[c] = Err("ChannelClosed")
    /\ pc[d] = "send"

\* C13: an Enroll call that returns a template id has added exactly one
\* record to the store, with that id, new, and owned by the call's user, and
\* the id is listed for that user until a RemoveModel of it succeeds; every
\* other step of an Enroll call (a failure reply included) leaves the store
\* as it was.
C13_Ids(st, u) == {ListByUser(st, u)[i] : i \in DOMAIN ListByUser(st, u)}

C13_State ==
  /\ \A r \in store : r.id < nextId
  /\ \A r, q \in store : r.id = q.id => r = q

C13_Step ==
  /\ \A c \in Calls :
       (method[c] = "Enroll" /\ pc[c] # pc'[c]) =>
         IF pc'[c] = "done" /\ result'[c].tag = "ok"
         THEN /\ Cardinality(store' \ store) = 1
              /\ store \subseteq store'
              /\ \A r \in store' \ store : r.id = result'[c].val /\ r.user = user[c]
              /\ \A r \in store : r.id # result'[c].val
              /\ result'[c].val \in C13_Ids(store', user[c])
         ELSE store' = store
  /\ (store' \ store # {}) =>
       \E c \in Calls : method[c] = "Enroll" /\ pc'[c] = "done" /\ pc[c] # "done"
  /\ \A u \in Users : \A id \in C13_Ids(store, u) \ C13_Ids(store', u) :
       \E c \in Calls : /\ method[c] = "RemoveModel" /\ arg[c] = id
                        /\ pc[c] = "locked" /\ result'[c] = Ok(TRUE)

C13_EnrollAddsOneRecord == [](C13_State) /\ [][C13_Step]_vars

\* An Enroll of bob has returned an id while a ListModels of bob, made after
\* it, returns a list that holds the id.
C13_Witness ==
  \E c, d \in Calls :
    /\ method[c] = "Enroll" /\ pc[c] = "done" /\ result[c].tag = "ok"
    /\ user[c] = "bob"
    /\ Cardinality(store) = Cardinality(SeedTemplates) + 1
    /\ method[d] = "ListModels" /\ user[d] = "bob" /\ pc[d] = "done"
    /\ result[d].tag = "ok"
    /\ \E i \in DOMAIN result[d].val : result[d].val[i] = result[c].val

\* C14: RemoveModel(user, id) removes a record only when the user owns it: it
\* returns true exactly when the store holds the id for that user and then
\* the store loses that record and no other; otherwise it returns false and
\* the store is as it was. A removed id never comes back (new records get
\* fresh ids), so every later removal of it returns false.
C14_State == \A r \in store : r.id \in 1..(nextId - 1)

C14_Step ==
  /\ \A c \in Calls :
       (method[c] = "RemoveModel" /\ pc[c] = "locked" /\ pc'[c] = "done") =>
         LET owned == {r \in store : r.id = arg[c] /\ r.user = user[c]}
         IN IF result'[c].tag = "ok"
            THEN /\ result'[c].val = (owned # {})
                 /\ store' = store \ owned
                 /\ \A r \in store : r.user # user[c] => r \in store'
                 /\ ~\E r \in store' : r.id = arg[c] /\ r.user = user[c]
            ELSE store' = store
  /\ \A r \in store' \ store : r.id = nextId /\ nextId' = nextId + 1
  /\ nextId' >= nextId

C14_RemoveOnlyByOwner == [](C14_State) /\ [][C14_Step]_vars

\* bob's removal of alice's template has returned false while alice's
\* removal of it has returned true, and bob's own template is still there.
C14_Witness ==
  \E c, d \in Calls :
    /\ method[c] = "RemoveModel" /\ user[c] = "bob" /\ pc[c] = "done"
    /\ result[c] = Ok(FALSE)
    /\ method[d] = "RemoveModel" /\ user[d] = "alice" /\ pc[d] = "done"
    /\ result[d] = Ok(TRUE)
    /\ store = {r \in SeedTemplates : r.user = "bob"}

\* C15: Status never fails: whatever the store answers and whatever the
\* engine is doing (dead, queue full, requests in flight), a Status call
\* only takes the lock and returns, and what it returns is a reply with the
\* two settings, never an error.
C15_State ==
  \A c \in Calls :
    method[c] = "Status" =>
      /\ pc[c] \in {"lock", "locked", "done"}
      /\ pc[c] = "done" =>
           /\ result[c].tag = "ok"
           /\ result[c].val.models_enrolled \in {0, CountAll(store)}
           /\ result[c].val.similarity_threshold = SimilarityThreshold

C15_Step ==
  \A c \in Calls :
    (method[c] = "Status" /\ pc[c] = "locked" /\ pc'[c] # "locked") =>
      pc'[c] = "done" /\ result'[c].tag = "ok"

C15_StatusNeverFails == [](C15_State) /\ [][C15_Step]_vars

\* Status has answered although the store query failed (it reports no
\* templates while the store holds some), the engine thread has ended and
\* another call has failed for it.
C15_Witness ==
  \E c, d \in Calls :
    /\ method[c] = "Status" /\ pc[c] = "done" /\ result[c].tag = "ok"
    /\ result[c].val.models_enrolled = 0 /\ store # {}
    /\ epc = "dead"
    /\ pc[d] = "done" /\ result[d] = Err("ChannelClosed")

\* C16: compare reports matched exactly when the gallery is non-empty and
\* its greatest similarity to the probe is at least the threshold; the
\* similarity it reports is that greatest one; a match carries the id of the
\* first template that attains it; an empty gallery gives matched = false,
\* similarity 0 and no id.
C16_Sims == {Similarity(input.probe, input.gallery[i].emb) : i \in DOMAIN input.gallery}
C16_Max == CHOOSE m \in C16_Sims : \A x \in C16_Sims : x <= m
C16_First ==
  CHOOSE i \in DOMAIN input.gallery :
    /\ Similarity(input.probe, input.gallery[i].emb) = C16_Max
    /\ \A j \in 1..(i - 1) : Similarity(input.probe, input.gallery[j].emb) < C16_Max

C16_CompareContract ==
  (input.fn = "compare" /\ output # NoRes) =>
    LET r == output.val.result
    IN IF Len(input.gallery) = 0
       THEN r = [matched |-> FALSE, similarity |-> 0, model_id |-> 0]
       ELSE /\ r.matched = (C16_Max >= input.threshold)
            /\ r.similarity = C16_Max
            /\ r.model_id = IF r.matched THEN input.gallery[C16_First].id ELSE 0

\* compare has matched on a gallery whose second and third templates both
\* attain the greatest similarity, which equals the threshold.
C16_Witness ==
  /\ input.fn = "compare" /\ output # NoRes
  /\ Len(input.gallery) = 3
  /\ output.val.result.matched
  /\ output.val.result.similarity = input.threshold
  /\ output.val.result.model_id = 2
  /\ Similarity(input.probe, input.gallery[3].emb) = input.threshold

\* C17: compare computes exactly len(gallery) similarities, wherever the
\* best template is and whether or not there is a match.
C17_VisitsEveryTemplate ==
  (input.fn = "compare" /\ output # NoRes) =>
    output.val.computed = Len(input.gallery)

\* compare has matched on the first of three templates and still computed
\* three similarities.
C17_Witness ==
  /\ input.fn = "compare" /\ output # NoRes
  /\ Len(input.gallery) = 3
  /\ output.val.result.matched /\ output.val.result.model_id = 1
  /\ output.val.result.similarity = 100
  /\ output.val.computed = 3

\* C18: a successful capture_frames(n) has made at most 3n dequeues, each
\* giving a kept or a dark frame; it keeps at most n frames, exactly the
\* non-dark buffers it dequeued, in their order; it stops with the dequeue
\* that gives the n-th kept frame, and keeps fewer than n only after 3n
\* dequeues.
C18_NonDark(raw) == raw # RawDark

C18_CaptureBounds ==
  (input.fn = "capture_frames" /\ output.tag = "ok") =>
    LET n == input.count
        kept == Len(output.val.frames)
        dark == output.val.dark_skipped
        dequeued == output.val.dequeued
    IN /\ Len(dequeued) <= 3 * n
       /\ kept <= n
       /\ kept + dark = Len(dequeued)
       /\ kept + dark <= 3 * n
       /\ kept < n => kept + dark = 3 * n
       /\ output.val.frames = SelectSeq(dequeued, C18_NonDark)
       /\ \A i \in DOMAIN output.val.frames : output.val.frames[i] \notin {RawDark, RawFail}
       /\ (kept = n /\ n > 0) => dequeued[Len(dequeued)] # RawDark

\* capture_frames(MaxCount) has returned one frame short after 3 * MaxCount
\* dequeues, the kept frame being the second buffer.
C18_Witness ==
  /\ input.fn = "capture_frames" /\ input.count = MaxCount
  /\ output.tag = "ok"
  /\ Len(output.val.frames) = MaxCount - 1
  /\ output.val.dark_skipped = 2 * MaxCount + 1
  /\ Len(output.val.dequeued) = 3 * MaxCount
  /\ output.val.dequeued[2] # RawDark

\* C19: emitter errors are never propagated: whether or not activation and
\* deactivation fail, the engine goes from activation to the capture and from
\* deactivation to the inference, every request it answers has been
\* captured for, and its reply is one that the camera's frames alone
\* determine, never an emitter error.
C19_Determined(req, r) ==
  \E cr \in CaptureResults(req.kind) :
    r = IF req.kind = "Enroll" THEN RunEnroll(cr)
        ELSE RunVerify(cr, req.gallery, req.threshold)

C19_Step ==
  /\ (epc = "activate" /\ epc' # epc) => (epc' = "capture" /\ cur' = cur)
  /\ (epc = "deactivate" /\ epc' # epc) => (epc' = "infer" /\ cur' = cur)
  /\ (epc = "infer" /\ epc' # epc) =>
       /\ cur.call \in captured
       /\ C19_Determined(cur, reply'[cur.call])
       /\ reply'[cur.call].tag = "err" =>
            reply'[cur.call].err \in {"Camera", "Detector", "NoLandmarks", "NoFaceDetected"}

C19_EmitterErrorsSwallowed == [][C19_Step]_vars

\* With an emitter whose activation and deactivation both fail, a Verify
\* has been captured for and answered with a match.
C19_Witness ==
  \E c \in Calls :
    /\ hasEmitter /\ emitterFails = EmitterOps
    /\ c \in emitted /\ c \in captured
    /\ rstate[c] = "done" /\ reply[c].tag = "ok"
    /\ method[c] = "Verify" /\ reply[c].val.result.matched

\* C20: a camera failure fails only the request it happened in: the engine
\* answers that request with the error alone (no frames, no result), is back
\* at the top of its loop with the queue, the store and the other calls'
\* replies untouched and takes the next request; the handler of the failed
\* request returns the failure to its caller without touching the store.
C20_State ==
  /\ epc # "dead"
  /\ (epc = "idle" /\ queue # <<>>) => ENABLED EngineRecv
  /\ \A c \in Calls : reply[c].tag = "err" => DOMAIN reply[c] = {"tag", "err"}

C20_Step ==
  /\ (epc = "infer" /\ epc' # epc /\ reply'[cur.call] = Err("Camera")) =>
       /\ epc' = "idle"
       /\ queue' = queue
       /\ store' = store
       /\ rstate'[cur.call] = "done"
       /\ \A d \in Calls \ {cur.call} : reply'[d] = reply[d] /\ rstate'[d] = rstate[d]
  /\ \A c \in Calls :
       (pc[c] = "wait" /\ reply[c] = Err("Camera") /\ pc'[c] # pc[c]) =>
         /\ pc'[c] = "done" /\ result'[c] = Err("Camera")
         /\ store' = store
         /\ epc' = epc /\ queue' = queue

C20_CameraFailureFailsOneRequest == [](C20_State) /\ [][C20_Step]_vars

\* One call has returned the camera failure to its caller and the engine
\* has since answered the other call with a result.
C20_Witness ==
  \E c, d \in Calls :
    /\ pc[c] = "done" /\ result[c] = Err("Camera")
    /\ busyAtBegin[d]
    /\ rstate[d] = "done" /\ reply[d].tag = "ok"

\* C21: with an emitter present every request goes through the attempt to
\* activate, then the capture, then the attempt to deactivate, in this order
\* and also when the capture fails: the engine answers, goes idle or takes
\* another request only after the deactivation attempt that follows the
\* activation attempt.
C21_State ==
  /\ epc \in {"capture", "deactivate", "infer"} => (hasEmitter => cur.call \in emitted)
  /\ epc \in {"deactivate", "infer"} => cur.call \in captured
  /\ epc \in {"idle", "activate"} => cur.call \notin captured
  /\ epc = "idle" => cur = NoReq

C21_Step ==
  /\ (epc = "activate" /\ epc' # epc) =>
       (epc' = "capture" /\ cur' = cur /\ captured' = captured)
  /\ (epc = "capture" /\ epc' # epc) =>
       (epc' = "deactivate" /\ cur' = cur /\ emitted' = emitted /\ reply' = reply)
  /\ (epc = "deactivate" /\ epc' # epc) =>
       (epc' = "infer" /\ cur' = cur /\ reply' = reply)
  /\ (epc' = "idle" /\ epc # "idle") => epc = "infer"
  /\ (cur' # cur /\ cur' # NoReq) => epc = "idle"
  /\ \A c \in Calls : (reply'[c] # reply[c] /\ reply'[c] # NoRes) => (epc = "infer" /\ cur.call = c)

C21_EmitterOrder == [](C21_State) /\ [][C21_Step]_vars

\* A request whose capture failed has been answered after the activation
\* attempt and the capture, and the engine has taken the next request.
C21_Witness ==
  \E c, d \in Calls :
    /\ hasEmitter
    /\ rstate[c] = "done" /\ reply[c] = Err("Camera")
    /\ c \in emitted /\ c \in captured
    /\ cur.call = d /\ epc = "activate"

\* C22: run_enroll, when the capture and every detection succeed, picks the
\* frame whose top detection has the greatest confidence, the earliest such
\* frame on a tie; it extracts the embedding from that frame and reports
\* that confidence as quality_score; it fails with NoFaceDetected exactly
\* when no captured frame has a detection (no frame at all included).
C22_Frames == IF input.capture.tag = "ok" THEN input.capture.val ELSE <<>>
C22_Detected == {i \in DOMAIN C22_Frames : C22_Frames[i] \in DOMAIN FaceTable}
C22_Conf(i) == FaceTable[C22_Frames[i]].conf
C22_Winner ==
  CHOOSE i \in C22_Detected :
    /\ \A j \in C22_Detected : C22_Conf(j) <= C22_Conf(i)
    /\ \A j \in C22_Detected : j < i => C22_Conf(j) < C22_Conf(i)

C22_EnrollBestFace ==
  (input.fn = "run_enroll" /\ output # NoRes) =>
    /\ (output = Err("NoFaceDetected")) <=>
         /\ input.capture.tag = "ok"
         /\ \A i \in DOMAIN C22_Frames : C22_Frames[i] = NoFace
    /\ output.tag = "ok" =>
         /\ C22_Detected # {}
         /\ output.val.embedding = FaceTable[C22_Frames[C22_Winner]].emb
         /\ output.val.quality_score = C22_Conf(C22_Winner)
    /\ (/\ input.capture.tag = "ok"
        /\ C22_Detected # {}
        /\ \A i \in DOMAIN C22_Frames : C22_Frames[i] # DetectFail
        /\ FaceTable[C22_Frames[C22_Winner]].lm) => output.tag = "ok"

\* run_enroll has returned the embedding of the second of three frames: the
\* first has no face, the third has a face of the same confidence.
C22_Witness ==
  /\ input.fn = "run_enroll" /\ output.tag = "ok"
  /\ input.capture = Ok(<<NoFace, 1, 3>>)
  /\ output.val.embedding = FaceTable[1].emb
  /\ output.val.quality_score = FaceTable[3].conf

\* C23: run_verify, when the capture, every detection and every extraction
\* succeed, returns the comparison of the frame whose top detection is most
\* similar to the gallery, the earliest such frame on a tie, with that
\* frame's confidence; so it reports a match exactly when some frame's face
\* reaches the threshold with some template; it fails with NoFaceDetected
\* exactly when no captured frame has a detection.
C23_Frames == IF input.capture.tag = "ok" THEN input.capture.val ELSE <<>>
C23_Detected == {i \in DOMAIN C23_Frames : C23_Frames[i] \in DOMAIN FaceTable}
C23_Clean ==
  /\ input.capture.tag = "ok"
  /\ \A i \in DOMAIN C23_Frames : C23_Frames[i] # DetectFail
  /\ \A i \in C23_Detected : FaceTable[C23_Frames[i]].lm
C23_Sims(i) ==
  {Similarity(FaceTable[C23_Frames[i]].emb, input.gallery[k].emb) : k \in DOMAIN input.gallery}
C23_Best(i) ==
  IF C23_Sims(i) = {} THEN 0 ELSE CHOOSE x \in C23_Sims(i) : \A y \in C23_Sims(i) : y <= x
C23_Winner ==
  CHOOSE i \in C23_Detected :
    /\ \A j \in C23_Detected : C23_Best(j) <= C23_Best(i)
    /\ \A j \in C23_Detected : j < i => C23_Best(j) < C23_Best(i)

C23_VerifyBestFrame ==
  (input.fn = "run_verify" /\ output # NoRes) =>
    /\ (output = Err("NoFaceDetected")) <=>
         /\ input.capture.tag = "ok"
         /\ \A i \in DOMAIN C23_Frames : C23_Frames[i] = NoFace
    /\ output.tag = "ok" => (C23_Clean /\ C23_Detected # {})
    /\ (C23_Clean /\ C23_Detected # {}) =>
         /\ output.tag = "ok"
         /\ output.val.result.similarity = C23_Best(C23_Winner)
         /\ output.val.result =
              Compare(FaceTable[C23_Frames[C23_Winner]].emb, input.gallery, input.threshold)
         /\ output.val.best_quality = FaceTable[C23_Frames[C23_Winner]].conf
         /\ output.val.result.matched <=>
              \E i \in C23_Detected : \E x \in C23_Sims(i) : x >= input.threshold

\* run_verify has returned the match of the first of two frames whose faces
\* are equally similar to the gallery, with the first frame's confidence.
C23_Witness ==
  /\ input.fn = "run_verify" /\ output.tag = "ok"
  /\ input.capture = Ok(<<2, 3>>)
  /\ Len(input.gallery) = 2
  /\ output.val.result.matched
  /\ output.val.result.model_id = 1
  /\ output.val.best_quality = FaceTable[2].conf

\* C24: an extraction attempted on a detection without landmarks fails the
\* whole call with NoLandmarks and nothing else comes out of it: run_enroll
\* attempts it on the winning detection, run_verify on the top detection of
\* every frame up to its first failure, so a frame without landmarks fails
\* the Verify even after a frame that matched.
C24_Frames == IF input.capture.tag = "ok" THEN input.capture.val ELSE <<>>
C24_NoLandmarks(i) ==
  C24_Frames[i] \in DOMAIN FaceTable /\ ~FaceTable[C24_Frames[i]].lm
C24_Attempted ==
  IF input.fn = "run_verify"
  THEN {i \in DOMAIN C24_Frames :
          /\ C24_Frames[i] \in DOMAIN FaceTable
          /\ \A j \in 1..(i - 1) : C24_Frames[j] # DetectFail /\ ~C24_NoLandmarks(j)}
  ELSE {i \in DOMAIN C24_Frames :
          /\ C24_Frames[i] \in DOMAIN FaceTable
          /\ \A j \in DOMAIN C24_Frames : C24_Frames[j] # DetectFail
          /\ \A j \in DOMAIN C24_Frames : C24_Frames[j] \in DOMAIN FaceTable =>
               \/ FaceTable[C24_Frames[j]].conf < FaceTable[C24_Frames[i]].conf
               \/ (FaceTable[C24_Frames[j]].conf = FaceTable[C24_Frames[i]].conf /\ i <= j)}

C24_NoLandmarksFailsCall ==
  (input.fn \in {"run_enroll", "run_verify"} /\ output # NoRes) =>
    /\ (\E i \in C24_Attempted : C24_NoLandmarks(i)) => output = Err("NoLandmarks")
    /\ output = Err("NoLandmarks") => \E i \in C24_Attempted : C24_NoLandmarks(i)

\* run_verify has failed with NoLandmarks on its second frame although the
\* face of its first frame matches the gallery.
C24_Witness ==
  /\ input.fn = "run_verify" /\ output = Err("NoLandmarks")
  /\ input.capture = Ok(<<1, 4>>)
  /\ \E k \in DOMAIN input.gallery :
       Similarity(FaceTable[1].emb, input.gallery[k].emb) >= input.threshold

\* C25: startup is ordered and fail-fast: the steps succeed in program order
\* (camera, detector, recognizer, emitter probe, warmup, engine thread,
\* store, bus name); the bus name is held and calls are served only after
\* all of them succeeded; a failure of the camera or of a model file ends
\* the process with an error before the engine thread is started and
\* without any call served; a missing emitter does not stop startup.
C25_Prefix(a, b) == Len(a) <= Len(b) /\ \A i \in DOMAIN a : a[i] = b[i]

C25_State ==
  /\ C25_Prefix(boot.done, StartupOrder)
  /\ daemonUp => (boot.at = "serving" /\ boot.done = StartupOrder)
  /\ (\E c \in Calls : pc[c] # "new") => daemonUp
  /\ (queue # <<>> \/ epc # "idle") => (\E i \in DOMAIN boot.done : boot.done[i] = "thread")
  /\ boot.failed # "-" =>
       /\ boot.at = "failed" /\ ~daemonUp
       /\ \A c \in Calls : pc[c] = "new"
  /\ boot.failed \in {"camera", "detector", "recognizer"} =>
       \A i \in DOMAIN boot.done : boot.done[i] # "thread"
  /\ boot.failed \notin {"emitter", "warmup"}

C25_Step ==
  /\ boot.at \in {"failed", "serving"} => boot' = boot
  /\ (boot.at = "emitter" /\ boot' # boot) => boot'.at = "warmup"
  /\ (daemonUp' /\ ~daemonUp) => (boot.at = "bus" /\ Len(boot.done) = Len(StartupOrder) - 1)

C25_StartupOrdered == [](C25_State) /\ [][C25_Step]_vars

\* The daemon has started without an emitter and has answered a call.
C25_Witness ==
  /\ boot = Serving /\ daemonUp /\ ~hasEmitter
  /\ \E c \in Calls : pc[c] = "done" /\ method[c] = "Verify" /\ rstate[c] = "done"

\* C26: once the engine thread has died, the daemon process eventually exits
\* (it no longer owns the bus name).
C26_DaemonExitsOnEngineDeath == (epc = "dead") ~> (boot.at = "exited" /\ ~daemonUp)

\* C27: the outcome of a Verify is a function of the gallery snapshot taken
\* at the start of the call and of the captured frames only: the snapshot is
\* the user's templates at that moment, the request carries it unchanged
\* while the store changes, and the reply is what run_verify gives on some
\* capture with that snapshot, whatever the store holds by then.
C27_Waiting(c) == method[c] = "Verify" /\ pc[c] \in {"send", "wait"}

C27_State ==
  /\ \A i \in DOMAIN queue :
       queue[i].kind = "Verify" /\ C27_Waiting(queue[i].call) =>
         queue[i].gallery = gallery[queue[i].call]
  /\ (cur # NoReq /\ cur.kind = "Verify" /\ C27_Waiting(cur.call)) =>
       cur.gallery = gallery[cur.call]

C27_Step ==
  \A c \in Calls :
    /\ (method[c] = "Verify" /\ pc[c] = "locked" /\ pc'[c] = "send") =>
         gallery'[c] = SortById({r \in store : r.user = user[c]})
    /\ (C27_Waiting(c) /\ pc'[c] \in {"send", "wait"}) => gallery'[c] = gallery[c]
    /\ (C27_Waiting(c) /\ reply'[c] # reply[c] /\ reply'[c] # NoRes) =>
         \E cr \in CapturedForVerify :
           reply'[c] = RunVerify(cr, gallery[c], SimilarityThreshold)
    /\ (C27_Waiting(c) /\ reply[c].tag = "ok" /\ pc'[c] = "done") =>
         result'[c] = Ok(reply[c].val.result.matched)

C27_VerifyUsesSnapshot == [](C27_State) /\ [][C27_Step]_vars

\* A Verify has been answered with a match on a template that was removed
\* from the store while the Verify was waiting.
C27_Witness ==
  \E c \in Calls :
    /\ method[c] = "Verify" /\ pc[c] = "wait" /\ reply[c].tag = "ok"
    /\ reply[c].val.result.matched
    /\ \A r \in store : r.id # reply[c].val.result.model_id
    /\ \E i \in DOMAIN gallery[c] : gallery[c][i].id = reply[c].val.result.model_id

\* C28: nms returns boxes of its input, each once, by descending confidence
\* and, among equal confidences, in input order; no two of them overlap
\* above the threshold; every box it drops overlaps above the threshold
\* with a returned box that precedes it in that order; nothing comes out of
\* nothing, pairwise disjoint boxes all survive, and of two boxes that
\* overlap above the threshold only the one first in that order survives.
C28_In == {input.detections[i] : i \in DOMAIN input.detections}
C28_Out == {output.val[i] : i \in DOMAIN output.val}
C28_Before(a, b) ==
  a.confidence > b.confidence \/ (a.confidence = b.confidence /\ a.idx < b.idx)
C28_Over(a, b) == IouAbove(a, b, input.iou_threshold)

C28_NmsContract ==
  (input.fn = "nms" /\ output # NoRes) =>
    /\ C28_Out \subseteq C28_In
    /\ \A i, j \in DOMAIN output.val : i < j => C28_Before(output.val[i], output.val[j])
    /\ \A a, b \in C28_Out : a # b => ~C28_Over(a, b)
    /\ \A b \in C28_In \ C28_Out : \E a \in C28_Out : C28_Before(a, b) /\ C28_Over(a, b)
    /\ input.detections = <<>> => output.val = <<>>
    /\ (\A a, b \in C28_In : a # b => ~C28_Over(a, b)) => C28_Out = C28_In
    /\ \A a, b \in C28_In :
         (C28_In = {a, b} /\ C28_Before(a, b) /\ C28_Over(a, b)) => output.val = <<a>>

\* Of three boxes of equal confidence, the second overlapping the first and
\* the third, nms has kept the first and the third.
C28_Witness ==
  /\ input.fn = "nms" /\ output # NoRes
  /\ Len(input.detections) = 3 /\ Len(output.val) = 2
  /\ \A i \in 1..3 : input.detections[i].confidence = 60
  /\ C28_Over(input.detections[1], input.detections[2])
  /\ C28_Over(input.detections[2], input.detections[3])
  /\ output.val = <<input.detections[1], input.detections[3]>>

\* C29: a request accepted into the engine queue is held once, in the queue
\* or by the engine thread, and is answered at most once: the engine sends a
\* Result on the request's reply channel only while it runs that request,
\* and the request is gone once the Result is sent; a handler leaves its
\* wait only with that Result or with ChannelClosed. While the engine
\* thread lives and the daemon runs, every queued request is eventually
\* answered and every waiting handler eventually ends its wait.
C29_Held(c) ==
  Cardinality({i \in DOMAIN queue : queue[i].call = c}) + (IF cur.call = c THEN 1 ELSE 0)

C29_State ==
  \A c \in Calls :
    /\ C29_Held(c) <= 1
    /\ rstate[c] = "queued" <=> \E i \in DOMAIN queue : queue[i].call = c
    /\ rstate[c] = "running" <=> cur.call = c
    /\ rstate[c] \in {"queued", "running"} => reply[c] = NoRes
    /\ reply[c].tag \in {"ok", "err"} => rstate[c] = "done"

C29_Step ==
  \A c \in Calls :
    /\ (reply'[c] # reply[c] /\ reply'[c].tag \in {"ok", "err"}) =>
         /\ rstate[c] = "running" /\ epc = "infer"
         /\ rstate'[c] = "done" /\ C29_Held(c)' = 0
    /\ (rstate'[c] # rstate[c] /\ rstate'[c] = "queued") => (pc[c] = "send" /\ pc'[c] = "wait")
    /\ (rstate'[c] # rstate[c] /\ rstate'[c] = "running") => rstate[c] = "queued"
    /\ (pc[c] = "wait" /\ pc'[c] \notin {"wait", "closed"}) =>
         \/ reply[c].tag = "ok"
         \/ reply[c].tag = "err" /\ result'[c] = Err(reply[c].err)
         \/ reply[c] = SenderDropped /\ result'[c] = Err("ChannelClosed")

C29_AnsweredOnce ==
  /\ [](C29_State)
  /\ [][C29_Step]_vars
  /\ \A c \in OverlappingCalls :
       (rstate[c] = "queued") ~> (reply[c].tag \in {"ok", "err"} \/ epc = "dead")
  /\ \A c \in OverlappingCalls :
       (pc[c] = "wait") ~> (pc[c] # "wait")

\* One call has ended with the Result the engine sent for its request,
\* while the request of the other call is still in the queue.
C29_Witness ==
  \E c, d \in Calls :
    /\ pc[c] = "done" /\ result[c].tag = "ok" /\ rstate[c] = "done"
    /\ rstate[d] = "queued" /\ epc = "idle"

\* C30: the engine queue never holds more requests than its capacity; a
\* handler that is at tx.send while the queue is full holds no lock and
\* stays there until the engine thread dequeues a request; the queue
\* changes only by a sender's request joining its end or by the engine
\* thread taking its head, so no request is dropped or overtaken.
C30_Blocked(c) == pc[c] = "send" /\ Len(queue) >= QueueCap

C30_State ==
  /\ Len(queue) <= QueueCap
  /\ \A c \in Calls : pc[c] = "send" => lock # c

C30_Step ==
  /\ \A c \in Calls :
       C30_Blocked(c) =>
         /\ pc'[c] = "send"
         /\ \A i \in DOMAIN queue' : queue'[i].call # c
         /\ Len(queue') < QueueCap => (cur' = Head(queue) /\ queue' = Tail(queue))
  /\ queue' # queue =>
       \/ \E c \in Calls :
            /\ pc[c] = "send" /\ pc'[c] = "wait"
            /\ Len(queue) < QueueCap
            /\ queue' = Append(queue, Request(c))
       \/ queue # <<>> /\ cur' = Head(queue) /\ queue' = Tail(queue)

C30_QueueBounded == [](C30_State) /\ [][C30_Step]_vars

\* A handler is at tx.send, without the lock, while the queue is full and
\* the engine thread has not yet taken a request.
C30_Witness ==
  \E c \in Calls :
    /\ C30_Blocked(c) /\ lock # c
    /\ epc = "idle" /\ cur = NoReq

====
